---- MODULE Spec2Model ----
(***************************************************************************)
(* Model of meta_git_lib: the clone queue (src/src/clone_queue.rs), the    *)
(* clone helper (src/src/lib.rs), worktree creation and ordered removal    *)
(* (src/src/worktree/git_ops.rs), the worktree store                       *)
(* (src/src/worktree/store.rs), repository snapshots (src/src/snapshot.rs),*)
(* URL normalisation (src/src/ssh_multiplexing.rs), the lifecycle hooks    *)
(* (src/src/worktree/hooks.rs) and the duration and .gitignore helpers     *)
(* (src/src/worktree/helpers.rs).                                          *)
(*                                                                         *)
(* Paths are sequences of path components, PathBuf::join of a relative     *)
(* path is concatenation, and PathBuf equality is component-wise equality. *)
(***************************************************************************)
EXTENDS Naturals, Integers, Sequences, FiniteSets, TLC

VARIABLES
    pending,            \* CloneQueue.pending: Vec<CloneTask>
    completed,          \* CloneQueue.completed: HashSet<PathBuf>
    failed,             \* CloneQueue.failed: HashSet<PathBuf>
    total_discovered,   \* CloneQueue.total_discovered
    total_completed,    \* CloneQueue.total_completed
    meta_depth,         \* CloneQueue.meta_depth: Option<usize>
    disk,               \* the file system: which directories exist, and their manifest
    remote,             \* what a successful clone of each target puts on disk
    preexisting,        \* the directories that existed before the run (history)
    phase,              \* scheduler run: "discover" before the workers start, then "run"
    wpc,                \* each worker's position in the worker loop
    wtask,              \* the task each worker holds
    active_workers,     \* the AtomicUsize the workers share
    taken,              \* scheduler run (history): number of tasks take_one has returned
    held,               \* API caller: tasks returned by take_one and not yet marked
    pushed_fresh,       \* history: target paths pushed while absent from completed
    last,               \* the last queue operation: its name, arguments and return value
    rm_repos,           \* remove_worktree_repos: the repos argument (aliases)
    rm_force,           \* remove_worktree_repos: the force argument
    rm_pc,              \* remove_worktree_repos: position in the function
    rm_idx,             \* remove_worktree_repos: index of the child loop
    rm_trace,           \* the git_worktree_remove calls issued so far, as <<alias, ok>>
    rm_failures,        \* remove_worktree_repos: the failures counter
    rm_result,          \* remove_worktree_repos: the returned value
    wa_heads,           \* source repo: the branches under refs/heads
    wa_remotes,         \* source repo: the branches under refs/remotes/origin
    wa_checked,         \* source repo: the branches checked out in a worktree
    wa_calls,           \* git_worktree_add: number of calls made
    wa_last,            \* git_worktree_add: the last call, its git commands and result
    st_dirs,            \* worktree store: the worktree directories that exist on disk
    st_file,            \* worktree store: the store file, absent or holding the worktrees map
    st_calls,           \* worktree store: number of store calls made
    st_last,            \* worktree store: the last store call and its result
    st_fallback,        \* worktree store (history): an entry was added under a literal path
    st_lock,            \* worktree store: the holder of the exclusive lock, 0 when free
    sp_pc,              \* worktree store: each process's position in its call
    sp_call,            \* worktree store: each process's call and the key it derived
    sp_snap,            \* worktree store: the map each process read under the lock
    st_serial,          \* worktree store (history): the calls applied one at a time
    tt_entry,           \* entry_ttl_remaining: the entry's ttl_seconds and created_at
    tt_debug,           \* entry_ttl_remaining: the build panics on arithmetic overflow
    tt_now,             \* entry_ttl_remaining: the now_epoch argument of the last call
    tt_out,             \* entry_ttl_remaining: the value the last call returned
    tt_prev,            \* entry_ttl_remaining: the call before the last (history)
    sn_repo,            \* snapshot: the repository (HEAD, branch, dirty, commits, stashes)
    sn_faults,          \* snapshot: git commands may fail for reasons outside the repo
    sn_trip,            \* snapshot (history): a capture, its restore and the capture after
    sn_cmds,            \* snapshot: the git commands the last restore ran, in order
    sn_result,          \* snapshot: what the last restore returned
    sn_state,           \* snapshot: the state the last restore was given
    url_in,             \* normalize_git_url: the URL given, as a sequence of pieces
    url_out,            \* normalize_git_url: the results of applying it once, twice, ...
    hk_env,             \* fire_worktree_hook: the meta dir, the manifest and the hook's fate
    hk_trace,           \* fire_worktree_hook: what the call did to the child process
    hk_result,          \* fire_worktree_hook: how the call ended
    gi_file,            \* ensure_worktrees_in_gitignore: the .gitignore of the meta dir
    gi_calls,           \* ensure_worktrees_in_gitignore: number of calls made
    gi_once,            \* ensure_worktrees_in_gitignore (history): the file after one call
    du_in,              \* durations: the string or the number of seconds given
    du_out,             \* durations: what parse_duration and format_duration returned
    cq_pc,              \* concurrent callers: each caller's position in its queue call
    cq_stack,           \* concurrent callers: the push_from_meta frames of each caller
    cq_task,            \* concurrent callers: the task each caller is pushing
    cq_calls,           \* concurrent callers: number of queue calls begun
    cq_mutex            \* concurrent callers: the holder of each mutex of the queue, 0 when free

qvars == <<pending, completed, failed, total_discovered, total_completed, meta_depth>>
envvars == <<disk, remote, preexisting>>
schedvars == <<phase, wpc, wtask, active_workers, taken>>
apivars == <<held, pushed_fresh>>
rmvars == <<rm_repos, rm_force, rm_pc, rm_idx, rm_trace, rm_failures, rm_result>>
wavars == <<wa_heads, wa_remotes, wa_checked, wa_calls, wa_last>>
stvars == <<st_dirs, st_file, st_calls, st_last, st_fallback, st_lock, sp_pc, sp_call,
            sp_snap, st_serial>>
ttvars == <<tt_entry, tt_debug, tt_now, tt_out, tt_prev>>
snvars == <<sn_repo, sn_faults, sn_trip, sn_cmds, sn_result, sn_state>>
urlvars == <<url_in, url_out>>
hkvars == <<hk_env, hk_trace, hk_result>>
givars == <<gi_file, gi_calls, gi_once>>
duvars == <<du_in, du_out>>
cqvars == <<cq_pc, cq_stack, cq_task, cq_calls, cq_mutex>>
libvars == <<wavars, stvars, ttvars, snvars, urlvars, hkvars, givars, duvars, cqvars>>
corevars == <<qvars, envvars, schedvars, apivars, last, rmvars>>
vars == <<qvars, envvars, schedvars, apivars, last, rmvars, libvars>>

\* The frame of each library component: everything outside it.
notwa == <<corevars, stvars, ttvars, snvars, urlvars, hkvars, givars, duvars, cqvars>>
notstore == <<corevars, wavars, ttvars, snvars, urlvars, hkvars, givars, duvars, cqvars>>
notttl == <<corevars, wavars, stvars, snvars, urlvars, hkvars, givars, duvars, cqvars>>
notsnapshot == <<corevars, wavars, stvars, ttvars, urlvars, hkvars, givars, duvars, cqvars>>
noturl == <<corevars, wavars, stvars, ttvars, snvars, hkvars, givars, duvars, cqvars>>
nothook == <<corevars, wavars, stvars, ttvars, snvars, urlvars, givars, duvars, cqvars>>
notgitignore == <<corevars, wavars, stvars, ttvars, snvars, urlvars, hkvars, duvars, cqvars>>
notduration == <<corevars, wavars, stvars, ttvars, snvars, urlvars, hkvars, givars, cqvars>>
notcallers == <<wavars, stvars, ttvars, snvars, urlvars, hkvars, givars, duvars, cq_mutex>>
notlocks == <<wavars, stvars, ttvars, snvars, urlvars, hkvars, givars, duvars>>

----------------------------------------------------------------------------
(* Bounds *)

NumWorkers == 2
NumCallers == 2
MaxCallerCalls == 3
MaxMetaDepth == 1
MaxDiscovered == 2
MaxRepos == 3

Workers == 1..NumWorkers
Callers == 1..NumCallers

\* The three mutexes of CloneQueue.
Mutexes == {"pending", "completed", "failed"}

----------------------------------------------------------------------------
(* Paths, manifests and the file system *)

Root == <<>>
DirA == <<"a">>
DirB == <<"b">>
DirAB == <<"a", "b">>
Targets == {DirA, DirB, DirAB}
Dirs == {Root} \cup Targets

\* base_dir.join(&project.path)
Join(base, rel) == base \o rel

NoManifest == [has_meta |-> FALSE, projects |-> <<>>]
Manifest(ps) == [has_meta |-> TRUE, projects |-> ps]
Absent == [exists |-> FALSE, has_meta |-> FALSE, projects |-> <<>>]
OnDisk(m) == [exists |-> TRUE, has_meta |-> m.has_meta, projects |-> m.projects]

Project(rel, repo, meta) == [path |-> rel, repo |-> repo, meta |-> meta]

\* target_path.exists()
Exists(p) == p \in DOMAIN disk /\ disk[p].exists

\* config::find_meta_config_in(dir).is_some()
FindMetaConfigIn(p) == Exists(p) /\ disk[p].has_meta

\* config::parse_meta_config(&meta_path): the projects in the manifest's order
ParseMetaConfig(p) == disk[p].projects

\* The proper ancestors of p below the root, which git clone creates with the target.
Ancestors(p) == {SubSeq(p, 1, n) : n \in 1..(Len(p) - 1)}

\* The manifests the runs are drawn from.  The root declares "a" (meta or plain,
\* with or without a URL), optionally "b" and optionally "a/b"; the repository
\* cloned to "a" has no manifest or one declaring "b", which is the same target
\* path as the root's "a/b".
RootManifests ==
    {<<pa>> \o eb \o eab :
        pa \in {Project(<<"a">>, TRUE, TRUE), Project(<<"a">>, TRUE, FALSE),
                Project(<<"a">>, FALSE, FALSE)},
        eb \in {<<>>, <<Project(<<"b">>, TRUE, FALSE)>>},
        eab \in {<<>>, <<Project(<<"a", "b">>, TRUE, FALSE)>>,
                 <<Project(<<"a", "b">>, FALSE, FALSE)>>}}

RemoteAChoices ==
    {NoManifest, Manifest(<<Project(<<"b">>, TRUE, FALSE)>>),
     Manifest(<<Project(<<"b">>, FALSE, FALSE)>>)}

\* Sets of directories present before the run: a directory's parent exists too.
PreexistingChoices == {E \in SUBSET Targets : DirAB \in E => DirA \in E}

MetaDepths == {[some |-> FALSE, val |-> 0]} \cup {[some |-> TRUE, val |-> k] : k \in 0..MaxMetaDepth}

----------------------------------------------------------------------------
(* CloneQueue *)

Task(path, depth_level, is_meta) ==
    [target_path |-> path, depth_level |-> depth_level, is_meta |-> is_meta]

NoTask == Task(Root, 0, FALSE)

PendingPaths(pend) == {pend[i].target_path : i \in 1..Len(pend)}

\* The queue as a value, for the operators below.
Q == [pending |-> pending, completed |-> completed, failed |-> failed,
      total_discovered |-> total_discovered, total_completed |-> total_completed]

\* push without the scan of pending.
PushNoPendingCheck(q, task) ==
    IF task.target_path \in q.completed
    THEN [q |-> q, ok |-> FALSE]
    ELSE [q |-> [q EXCEPT !.pending = Append(@, task),
                          !.total_discovered = @ + 1],
          ok |-> TRUE]

\* CloneQueue::push: [q |-> the queue afterwards, ok |-> the returned bool]
Push(q, task) ==
    IF task.target_path \in q.completed
    THEN [q |-> q, ok |-> FALSE]
    ELSE IF \E i \in 1..Len(q.pending) : q.pending[i].target_path = task.target_path
    THEN [q |-> q, ok |-> FALSE]
    ELSE [q |-> [q EXCEPT !.pending = Append(@, task),
                          !.total_discovered = @ + 1],
          ok |-> TRUE]

\* The depth gate, one level too late.
DepthGateOffByOne(depth_level) == meta_depth.some /\ depth_level > meta_depth.val + 1

\* The depth gate of push_from_meta.
DepthGateClosed(depth_level) == meta_depth.some /\ depth_level > meta_depth.val

\* An existing directory is never looked into.
NoNestedConfig(target_path) == FALSE

\* push_from_meta, for an existing target: does it hold a manifest of its own?
HasNestedConfig(target_path) == FindMetaConfigIn(target_path)

RECURSIVE PushFromMeta(_, _, _)
RECURSIVE PushProjects(_, _, _, _, _)

\* The loop `for project in projects` of push_from_meta, from index i on.
\* r is [q, added, tried]: the queue, the running count, and the target paths
\* handed to push so far.
PushProjects(r, base_dir, depth_level, projects, i) ==
    IF i > Len(projects) THEN r
    ELSE
        LET project == projects[i]
            target_path == Join(base_dir, project.path)
        IN  IF Exists(target_path)
            THEN IF HasNestedConfig(target_path)
                 THEN LET n == PushFromMeta(r.q, target_path, depth_level + 1)
                      IN  PushProjects([q |-> n.q, added |-> r.added + n.added,
                                        tried |-> r.tried \cup n.tried],
                                       base_dir, depth_level, projects, i + 1)
                 ELSE PushProjects(r, base_dir, depth_level, projects, i + 1)
            ELSE IF ~project.repo
            THEN PushProjects(r, base_dir, depth_level, projects, i + 1)
            ELSE LET task == Task(target_path, depth_level, project.meta)
                     p == Push(r.q, task)
                 IN  PushProjects([q |-> p.q,
                                   added |-> IF p.ok THEN r.added + 1 ELSE r.added,
                                   tried |-> r.tried \cup {target_path}],
                                  base_dir, depth_level, projects, i + 1)

\* CloneQueue::push_from_meta: [q, added |-> the returned count, tried]
PushFromMeta(q, base_dir, depth_level) ==
    IF DepthGateClosed(depth_level)
    THEN [q |-> q, added |-> 0, tried |-> {}]
    ELSE IF ~FindMetaConfigIn(base_dir)
    THEN [q |-> q, added |-> 0, tried |-> {}]
    ELSE PushProjects([q |-> q, added |-> 0, tried |-> {}],
                      base_dir, depth_level, ParseMetaConfig(base_dir), 1)

\* A take_one that hands out the oldest task.
TakeFirst(q) ==
    IF q.pending = <<>>
    THEN [q |-> q, some |-> FALSE, task |-> NoTask]
    ELSE [q |-> [q EXCEPT !.pending = Tail(@)], some |-> TRUE, task |-> Head(q.pending)]

\* CloneQueue::take_one: [q, task |-> the returned Option]
TakeOne(q) ==
    IF q.pending = <<>>
    THEN [q |-> q, some |-> FALSE, task |-> NoTask]
    ELSE [q |-> [q EXCEPT !.pending = SubSeq(@, 1, Len(@) - 1)],
          some |-> TRUE, task |-> q.pending[Len(q.pending)]]

\* is_finished with the comparison of active_workers inverted.
IsFinishedInverted(q, active) == q.pending = <<>> /\ active # 0

\* CloneQueue::is_finished
IsFinished(q, active) == q.pending = <<>> /\ active = 0

\* A drain_all that leaves the oldest task behind.
DrainAllButFirst(q) ==
    [q |-> [q EXCEPT !.pending = SubSeq(@, 1, IF Len(@) > 0 THEN 1 ELSE 0)],
     tasks |-> SubSeq(q.pending, 2, Len(q.pending))]

\* CloneQueue::drain_all
DrainAll(q) == [q |-> [q EXCEPT !.pending = <<>>], tasks |-> q.pending]

\* CloneQueue::get_counts
GetCounts(q) == <<q.total_completed, q.total_discovered>>

\* A mark_completed that loses the count of push_from_meta.
MarkCompletedUncounted(q, task) ==
    LET q1 == [q EXCEPT !.total_completed = @ + 1,
                        !.completed = @ \cup {task.target_path}]
        r == PushFromMeta(q1, task.target_path, task.depth_level + 1)
    IN  [q |-> r.q, added |-> 0, tried |-> r.tried, warned |-> task.is_meta]

\* CloneQueue::mark_completed: [q, added |-> the returned count, tried,
\* warned |-> the meta-without-children warning was printed]
MarkCompleted(q, task) ==
    LET q1 == [q EXCEPT !.total_completed = @ + 1,
                        !.completed = @ \cup {task.target_path}]
        r == PushFromMeta(q1, task.target_path, task.depth_level + 1)
    IN  [q |-> r.q, added |-> r.added, tried |-> r.tried,
         warned |-> task.is_meta /\ r.added = 0]

\* mark_failed that records the path in completed as well.
MarkFailedAsCompleted(q, task) ==
    [q EXCEPT !.total_completed = @ + 1, !.failed = @ \cup {task.target_path},
              !.completed = @ \cup {task.target_path}]

\* CloneQueue::mark_failed
MarkFailed(q, task) ==
    [q EXCEPT !.total_completed = @ + 1, !.failed = @ \cup {task.target_path}]

\* Writes a queue value back to the state.
SetQueue(q) ==
    /\ pending' = q.pending
    /\ completed' = q.completed
    /\ failed' = q.failed
    /\ total_discovered' = q.total_discovered
    /\ total_completed' = q.total_completed
    /\ UNCHANGED meta_depth

----------------------------------------------------------------------------
(* clone_repo_with_progress *)

\* The disk after git clone created target_path: its content is the remote's,
\* and the missing directories above it are created empty.
DiskAfterClone(target_path) ==
    [p \in Dirs |->
        IF p = target_path THEN OnDisk(remote[p])
        ELSE IF p \in Ancestors(target_path) /\ ~disk[p].exists THEN OnDisk(NoManifest)
        ELSE disk[p]]

\* clone_repo_with_progress(url, target_dir): an existing target is skipped with
\* Ok(()); otherwise git clone runs and either creates the directory (Ok) or
\* fails (Err) leaving the disk as it was.
CloneRepo(target_path, ok) ==
    IF Exists(target_path)
    THEN ok /\ UNCHANGED disk
    ELSE IF ok THEN disk' = DiskAfterClone(target_path)
    ELSE UNCHANGED disk

NoOp ==
    [op |-> "none", task |-> NoTask, base |-> Root, depth |-> 0, ok |-> FALSE, n |-> 0,
     tasks |-> <<>>, warned |-> FALSE]
Op(name, task, base, depth, ok, n) ==
    [op |-> name, task |-> task, base |-> base, depth |-> depth, ok |-> ok, n |-> n,
     tasks |-> <<>>, warned |-> FALSE]

----------------------------------------------------------------------------
(* Initial states *)

InitQueue ==
    /\ pending = <<>>
    /\ completed = {}
    /\ failed = {}
    /\ total_discovered = 0
    /\ total_completed = 0
    /\ meta_depth \in MetaDepths

InitEnvFrom(roots, remotes, pre) ==
    /\ \E rm \in roots, ra \in remotes :
        remote = [p \in Dirs |-> IF p = Root THEN Manifest(rm)
                                  ELSE IF p = DirA THEN ra ELSE NoManifest]
    /\ preexisting \in pre
    /\ disk = [p \in Dirs |-> IF p = Root \/ p \in preexisting
                              THEN OnDisk(remote[p]) ELSE Absent]

InitSched ==
    /\ phase = "discover"
    /\ wpc = [w \in Workers |-> "take"]
    /\ wtask = [w \in Workers |-> NoTask]
    /\ active_workers = 0
    /\ taken = 0

InitApi ==
    /\ held = {}
    /\ pushed_fresh = {}

\* git_worktree_add not called: a repository without branches of interest.
NoAdd ==
    [op |-> "none", branch |-> "", from_ref |-> "", had_local |-> FALSE,
     had_remote |-> FALSE, cmd |-> <<>>, ok |-> FALSE, created_branch |-> FALSE,
     err |-> [kind |-> "none", ref |-> ""]]

InitWaIdle ==
    /\ wa_heads = {}
    /\ wa_remotes = {}
    /\ wa_checked = {}
    /\ wa_calls = 0
    /\ wa_last = NoAdd

\* The worktree store: no store file, no call made.
NumStoreProcs == 2
StoreProcs == 1..NumStoreProcs

NoEntry == [name |-> "", repos |-> <<>>]
NoWorktrees == [k \in {} |-> NoEntry]
MissingFile == [exists |-> FALSE, worktrees |-> NoWorktrees]

NoStoreCall ==
    [op |-> "none", path |-> "", key |-> "", keys |-> {}, entry |-> NoEntry,
     repos |-> <<>>, ok |-> FALSE]

InitStoreIdle ==
    /\ st_dirs = {}
    /\ st_file = MissingFile
    /\ st_calls = 0
    /\ st_last = NoStoreCall
    /\ st_fallback = FALSE
    /\ st_lock = 0
    /\ sp_pc = [p \in StoreProcs |-> "idle"]
    /\ sp_call = [p \in StoreProcs |-> NoStoreCall]
    /\ sp_snap = [p \in StoreProcs |-> NoWorktrees]
    /\ st_serial = MissingFile

\* entry_ttl_remaining not called.
NoTtl == [some |-> FALSE, val |-> 0]
NoRemaining == [called |-> FALSE, panicked |-> FALSE, some |-> FALSE, val |-> 0]
NoPrev == [now |-> 0, out |-> NoRemaining]

InitTtlIdle ==
    /\ tt_entry = [ttl |-> NoTtl, created |-> [ok |-> TRUE, ts |-> 0]]
    /\ tt_debug = FALSE
    /\ tt_now = 0
    /\ tt_out = NoRemaining
    /\ tt_prev = NoPrev

\* The snapshot functions not called: a clean repository on "main".
NoBranch == [some |-> FALSE, name |-> ""]
Repo(head, branch, dirty, commits, stashes) ==
    [head |-> head, branch |-> branch, dirty |-> dirty, commits |-> commits,
     stashes |-> stashes]
NoResult ==
    [kind |-> "none", success |-> FALSE, stashed |-> FALSE, message |-> <<>>]

NoState ==
    [sha |-> [commit |-> "", short |-> FALSE], branch |-> NoBranch, dirty |-> FALSE,
     stash_created |-> FALSE]
NoTrip == [stage |-> "none", first |-> NoState, second |-> NoState]

InitSnapshotIdle ==
    /\ sn_repo = Repo("c1", [some |-> TRUE, name |-> "main"], FALSE, {"c1"}, 0)
    /\ sn_faults = FALSE
    /\ sn_trip = NoTrip
    /\ sn_cmds = <<>>
    /\ sn_result = NoResult
    /\ sn_state = NoState

\* normalize_git_url not called.
InitUrlIdle ==
    /\ url_in = <<>>
    /\ url_out = <<>>

\* fire_worktree_hook not called.
HookNames == {"post-create", "post-destroy", "post-prune"}
NoHookEnv ==
    [meta_dir |-> FALSE, manifest |-> FALSE, hooks |-> [n \in HookNames |-> "absent"],
     payload |-> "ok", spawn |-> "ok", write |-> "ok", exit |-> "zero"]
NoHookCall == [kind |-> "none", hook_name |-> ""]

InitHookIdle ==
    /\ hk_env = NoHookEnv
    /\ hk_trace = <<>>
    /\ hk_result = NoHookCall

\* ensure_worktrees_in_gitignore not called.
NoGitignore == [exists |-> FALSE, text |-> <<>>]

InitGitignoreIdle ==
    /\ gi_file = NoGitignore
    /\ gi_calls = 0
    /\ gi_once = NoGitignore

\* parse_duration and format_duration not called.
NoDuration == [kind |-> "none"]

InitDurationIdle ==
    /\ du_in = NoDuration
    /\ du_out = NoDuration

\* No caller inside a queue call.
InitCallersIdle ==
    /\ cq_pc = [c \in Callers |-> "idle"]
    /\ cq_stack = [c \in Callers |-> <<>>]
    /\ cq_task = [c \in Callers |-> [target_path |-> <<>>, depth_level |-> 0, is_meta |-> FALSE]]
    /\ cq_calls = 0
    /\ cq_mutex = [m \in Mutexes |-> 0]

\* Every library component except the named one at rest.
InitLibIdle(except) ==
    /\ InitCallersIdle
    /\ (except # "gitignore" => InitGitignoreIdle)
    /\ (except # "duration" => InitDurationIdle)
    /\ (except # "worktree_add" => InitWaIdle)
    /\ (except # "store" => InitStoreIdle)
    /\ (except # "ttl" => InitTtlIdle)
    /\ (except # "snapshot" => InitSnapshotIdle)
    /\ (except # "url" => InitUrlIdle)
    /\ (except # "hook" => InitHookIdle)

InitRm ==
    /\ rm_repos = <<>>
    /\ rm_force = FALSE
    /\ rm_pc = "idle"
    /\ rm_idx = 0
    /\ rm_trace = <<>>
    /\ rm_failures = 0
    /\ rm_result = "none"

----------------------------------------------------------------------------
(* The scheduler run: discovery from the root, then the worker loop *)

\* The caller seeds the queue from the root manifest before starting the workers.
Discover ==
    /\ phase = "discover"
    /\ LET r == PushFromMeta(Q, Root, 0)
       IN  /\ SetQueue(r.q)
    /\ phase' = "run"
    /\ UNCHANGED <<envvars, wpc, wtask, active_workers, taken, apivars, last, rmvars, libvars>>

\* Step 1: take_one(); with no task the worker goes on to the termination check.
WTake(w) ==
    /\ phase = "run"
    /\ wpc[w] = "take"
    /\ LET r == TakeOne(Q)
       IN  /\ SetQueue(r.q)
           /\ wtask' = [wtask EXCEPT ![w] = r.task]
           /\ wpc' = [wpc EXCEPT ![w] = IF r.some THEN "inc" ELSE "check"]
           /\ taken' = IF r.some THEN taken + 1 ELSE taken
    /\ UNCHANGED <<envvars, phase, active_workers, apivars, last, rmvars, libvars>>

\* Step 1, no task: is_finished(); finished means exit, otherwise yield and retry.
WCheck(w) ==
    /\ phase = "run"
    /\ wpc[w] = "check"
    /\ LET fin == IsFinished(Q, active_workers)
       IN  /\ wpc' = [wpc EXCEPT ![w] = IF fin THEN "done" ELSE "take"]
    /\ UNCHANGED <<qvars, envvars, phase, wtask, active_workers, taken, apivars, last, rmvars, libvars>>

\* Step 2: increment active_workers.
WInc(w) ==
    /\ phase = "run"
    /\ wpc[w] = "inc"
    /\ active_workers' = active_workers + 1
    /\ wpc' = [wpc EXCEPT ![w] = "clone"]
    /\ UNCHANGED <<qvars, envvars, phase, wtask, taken, apivars, last, rmvars, libvars>>

\* Step 3: clone the task's repository.
WClone(w) ==
    /\ phase = "run"
    /\ wpc[w] = "clone"
    /\ \E ok \in BOOLEAN :
        /\ CloneRepo(wtask[w].target_path, ok)
        /\ wpc' = [wpc EXCEPT ![w] = IF ok THEN "mark_completed" ELSE "mark_failed"]
    /\ UNCHANGED <<qvars, remote, preexisting, phase, wtask, active_workers, taken, apivars, last, rmvars, libvars>>

\* Step 4: mark_completed(task).
WMarkCompleted(w) ==
    /\ phase = "run"
    /\ wpc[w] = "mark_completed"
    /\ LET r == MarkCompleted(Q, wtask[w])
       IN  /\ SetQueue(r.q)
    /\ wpc' = [wpc EXCEPT ![w] = "dec"]
    /\ UNCHANGED <<envvars, phase, wtask, active_workers, taken, apivars, last, rmvars, libvars>>

\* Step 5: mark_failed(task).
WMarkFailed(w) ==
    /\ phase = "run"
    /\ wpc[w] = "mark_failed"
    /\ SetQueue(MarkFailed(Q, wtask[w]))
    /\ wpc' = [wpc EXCEPT ![w] = "dec"]
    /\ UNCHANGED <<envvars, phase, wtask, active_workers, taken, apivars, last, rmvars, libvars>>

\* Step 6: decrement active_workers and loop.
WDec(w) ==
    /\ phase = "run"
    /\ wpc[w] = "dec"
    /\ active_workers' = active_workers - 1
    /\ wpc' = [wpc EXCEPT ![w] = "take"]
    /\ wtask' = [wtask EXCEPT ![w] = NoTask]
    /\ UNCHANGED <<qvars, envvars, phase, taken, apivars, last, rmvars, libvars>>

InitSchedRun ==
    InitQueue /\ InitEnvFrom(RootManifests, RemoteAChoices, PreexistingChoices) /\ InitSched /\ InitApi /\ InitRm /\ InitLibIdle("") /\ last = NoOp

NextSched ==
    \/ Discover
    \/ \E w \in Workers : WTake(w)
    \/ \E w \in Workers : WCheck(w)
    \/ \E w \in Workers : WInc(w)
    \/ \E w \in Workers : WClone(w)
    \/ \E w \in Workers : WMarkCompleted(w)
    \/ \E w \in Workers : WMarkFailed(w)
    \/ \E w \in Workers : WDec(w)

SpecSched == InitSchedRun /\ [][NextSched]_vars

----------------------------------------------------------------------------
(* The queue's public operations, called in any order by one caller *)

\* tests::make_task: depth_level 0, is_meta false
ApiTasks == {Task(p, 0, FALSE) : p \in Targets}

ApiRootManifests ==
    {<<Project(<<"a">>, TRUE, TRUE), Project(<<"b">>, TRUE, FALSE),
       Project(<<"a", "b">>, FALSE, FALSE)>>}

ApiRemoteAChoices == {Manifest(<<Project(<<"b">>, TRUE, FALSE)>>)}

ApiDepths == 0..(MaxMetaDepth + 1)

ApiPush(task) ==
    /\ total_discovered < MaxDiscovered
    /\ LET r == Push(Q, task)
       IN  /\ SetQueue(r.q)
           /\ last' = Op("push", task, Root, 0, r.ok, 0)
    /\ pushed_fresh' = pushed_fresh \cup ({task.target_path} \ completed)
    /\ UNCHANGED <<envvars, schedvars, held, rmvars, libvars>>

ApiPushFromMeta(base_dir, depth_level) ==
    /\ total_discovered < MaxDiscovered
    /\ LET r == PushFromMeta(Q, base_dir, depth_level)
       IN  /\ SetQueue(r.q)
           /\ last' = Op("push_from_meta", NoTask, base_dir, depth_level, FALSE, r.added)
           /\ pushed_fresh' = pushed_fresh \cup (r.tried \ completed)
    /\ UNCHANGED <<envvars, schedvars, held, rmvars, libvars>>

ApiTakeOne ==
    /\ LET r == TakeOne(Q)
       IN  /\ SetQueue(r.q)
           /\ held' = IF r.some THEN held \cup {r.task} ELSE held
           /\ last' = Op("take_one", r.task, Root, 0, r.some, 0)
    /\ UNCHANGED <<envvars, schedvars, pushed_fresh, rmvars, libvars>>

\* The caller clones a task it holds (the clone succeeds and creates the directory).
ApiClone(task) ==
    /\ task \in held
    /\ ~Exists(task.target_path)
    /\ CloneRepo(task.target_path, TRUE)
    /\ last' = Op("clone", task, Root, 0, TRUE, 0)
    /\ UNCHANGED <<qvars, remote, preexisting, schedvars, apivars, rmvars, libvars>>

ApiMarkCompleted(task) ==
    /\ task \in held
    /\ LET r == MarkCompleted(Q, task)
       IN  /\ SetQueue(r.q)
           /\ last' = [Op("mark_completed", task, task.target_path,
                          task.depth_level + 1, FALSE, r.added)
                        EXCEPT !.warned = r.warned]
           /\ pushed_fresh' = pushed_fresh \cup (r.tried \ r.q.completed)
    /\ held' = held \ {task}
    /\ UNCHANGED <<envvars, schedvars, rmvars, libvars>>

ApiMarkFailed(task) ==
    /\ task \in held
    /\ SetQueue(MarkFailed(Q, task))
    /\ last' = Op("mark_failed", task, Root, 0, FALSE, 0)
    /\ held' = held \ {task}
    /\ UNCHANGED <<envvars, schedvars, pushed_fresh, rmvars, libvars>>

ApiDrainAll ==
    /\ LET r == DrainAll(Q)
       IN  /\ SetQueue(r.q)
           /\ last' = [Op("drain_all", NoTask, Root, 0, FALSE, Len(r.tasks))
                        EXCEPT !.tasks = r.tasks]
    /\ UNCHANGED <<envvars, schedvars, apivars, rmvars, libvars>>

InitQueueApi ==
    InitQueue /\ InitEnvFrom(ApiRootManifests, ApiRemoteAChoices, {{}}) /\ InitSched /\ InitApi /\ InitRm /\ InitLibIdle("") /\ last = NoOp

NextQueue ==
    \/ \E task \in ApiTasks : ApiPush(task)
    \/ \E base_dir \in Dirs, depth_level \in ApiDepths : ApiPushFromMeta(base_dir, depth_level)
    \/ ApiTakeOne
    \/ \E task \in held : ApiClone(task)
    \/ \E task \in held : ApiMarkCompleted(task)
    \/ \E task \in held : ApiMarkFailed(task)
    \/ ApiDrainAll

SpecQueue == InitQueueApi /\ [][NextQueue]_vars

----------------------------------------------------------------------------
(* remove_worktree_repos *)

Aliases == {".", "lib", "cli"}

RECURSIVE SeqsUpTo(_, _)
SeqsUpTo(S, n) ==
    IF n = 0 THEN {<<>>}
    ELSE LET shorter == SeqsUpTo(S, n - 1)
         IN  shorter \cup {Append(q, x) : q \in shorter, x \in S}

\* The child loop without its filter.
IsChildRepoAny(alias) == TRUE

\* repos.iter().filter(|r| r.alias != ".")
IsChildRepo(alias) == alias # "."

\* A lookup that never finds ".".
FindNoRootRepo(repos) == 0

\* repos.iter().find(|r| r.alias == "."): the index of the first ".", 0 for None
FindRootRepo(repos) ==
    IF \E i \in 1..Len(repos) : repos[i] = "."
    THEN CHOOSE i \in 1..Len(repos) : repos[i] = "." /\ \A j \in 1..(i - 1) : repos[j] # "."
    ELSE 0

Removal(alias, idx, ok) == [alias |-> alias, idx |-> idx, ok |-> ok]

\* One iteration of the loop over the child repos: a "." entry is filtered out,
\* any other entry is removed with git_worktree_remove, which succeeds or fails.
RmChild ==
    /\ rm_pc = "children"
    /\ rm_idx <= Len(rm_repos)
    /\ IF ~IsChildRepo(rm_repos[rm_idx])
       THEN /\ rm_idx' = rm_idx + 1
            /\ UNCHANGED <<rm_pc, rm_trace, rm_failures, rm_result>>
       ELSE \E ok \in BOOLEAN :
            /\ rm_trace' = Append(rm_trace, Removal(rm_repos[rm_idx], rm_idx, ok))
            /\ IF ok
               THEN /\ rm_idx' = rm_idx + 1
                    /\ UNCHANGED <<rm_pc, rm_failures, rm_result>>
               ELSE IF rm_force
               THEN /\ rm_failures' = rm_failures + 1
                    /\ rm_idx' = rm_idx + 1
                    /\ UNCHANGED <<rm_pc, rm_result>>
               ELSE /\ rm_result' = "err"
                    /\ rm_pc' = "done"
                    /\ UNCHANGED <<rm_idx, rm_failures>>
    /\ UNCHANGED <<rm_repos, rm_force, qvars, envvars, schedvars, apivars, last, libvars>>

\* After the loop: "." is removed last, and the failure count is returned.
RmRoot ==
    /\ rm_pc = "children"
    /\ rm_idx > Len(rm_repos)
    /\ LET root == FindRootRepo(rm_repos)
       IN  IF root = 0
           THEN /\ rm_result' = "ok"
                /\ rm_pc' = "done"
                /\ UNCHANGED <<rm_trace, rm_failures>>
           ELSE \E ok \in BOOLEAN :
                /\ rm_trace' = Append(rm_trace, Removal(rm_repos[root], root, ok))
                /\ rm_pc' = "done"
                /\ IF ok
                   THEN rm_result' = "ok" /\ UNCHANGED rm_failures
                   ELSE IF rm_force
                   THEN rm_result' = "ok" /\ rm_failures' = rm_failures + 1
                   ELSE rm_result' = "err" /\ UNCHANGED rm_failures
    /\ UNCHANGED <<rm_repos, rm_force, rm_idx, qvars, envvars, schedvars, apivars, last, libvars>>

\* The other components at rest.
InitIdleQueue ==
    /\ pending = <<>>
    /\ completed = {}
    /\ failed = {}
    /\ total_discovered = 0
    /\ total_completed = 0
    /\ meta_depth = [some |-> FALSE, val |-> 0]
    /\ remote = [p \in Dirs |-> NoManifest]
    /\ preexisting = {}
    /\ disk = [p \in Dirs |-> IF p = Root THEN OnDisk(NoManifest) ELSE Absent]
    /\ InitSched
    /\ InitApi
    /\ last = NoOp

InitRemove ==
    /\ InitIdleQueue
    /\ InitLibIdle("")
    /\ rm_repos \in SeqsUpTo(Aliases, MaxRepos)
    /\ rm_force \in BOOLEAN
    /\ rm_pc = "children"
    /\ rm_idx = 1
    /\ rm_trace = <<>>
    /\ rm_failures = 0
    /\ rm_result = "none"

NextRemove == RmChild \/ RmRoot

SpecRemove == InitRemove /\ [][NextRemove]_vars

\* One worker's steps, and the scheduling the run assumes: every worker thread
\* keeps running, and every clone returns.
WorkerStep(w) ==
    \/ WTake(w)
    \/ WCheck(w)
    \/ WInc(w)
    \/ WClone(w)
    \/ WMarkCompleted(w)
    \/ WMarkFailed(w)
    \/ WDec(w)

\* The fair runs start from the manifests whose projects all have a URL and
\* whose "a" is a meta repository, with nothing or "a" on disk.
FairRootManifests ==
    {rm \in RootManifests : rm[1].meta /\ \A i \in 1..Len(rm) : rm[i].repo}

InitSchedFair ==
    InitQueue /\ InitEnvFrom(FairRootManifests, RemoteAChoices, {{}, {DirA}}) /\
    InitSched /\ InitApi /\ InitRm /\ InitLibIdle("") /\ last = NoOp

SpecSchedFair ==
    /\ InitSchedFair
    /\ [][NextSched]_vars
    /\ WF_vars(Discover)
    /\ \A w \in Workers : WF_vars(WorkerStep(w))

----------------------------------------------------------------------------
(* Properties of the scheduler run (SpecSched, SpecSchedFair) *)

\* Worker w has taken a task and has not yet marked it.
InFlight(w) == wpc[w] \in {"inc", "clone", "mark_completed", "mark_failed"}

InFlightPaths == {wtask[w].target_path : w \in {v \in Workers : InFlight(v)}}

AllDone == \A w \in Workers : wpc[w] = "done"

Unlimited == ~meta_depth.some

\* The target paths of the projects declared, directly or through the manifests
\* of cloned or already present repositories, below base: those with a URL whose
\* directory was not on disk before the run.
RECURSIVE DeclaredFrom(_)
DeclaredFrom(base) ==
    LET m == remote[base]
        Of(project) ==
            LET t == Join(base, project.path)
            IN  IF t \in preexisting THEN DeclaredFrom(t)
                ELSE IF project.repo THEN {t} \cup DeclaredFrom(t)
                ELSE {}
    IN  IF m.has_meta THEN UNION {Of(m.projects[i]) : i \in 1..Len(m.projects)} ELSE {}

\* C1: each target path is attempted at most once: a path that is in flight, or
\* was marked completed or failed, is never in pending again, and no two workers
\* hold the same target path.
C1_AttemptedAtMostOnce ==
    /\ PendingPaths(pending) \cap (InFlightPaths \cup completed \cup failed) = {}
    /\ \A w, v \in Workers :
        (w # v /\ InFlight(w) /\ InFlight(v)) => wtask[w].target_path # wtask[v].target_path
    /\ \A w \in Workers : InFlight(w) => wtask[w].target_path \notin completed \cup failed

\* C3: is_finished never returns true (no worker has exited) while a task has
\* been taken and not yet settled, or while pending holds work.
C3_NoExitWhileUnfinished ==
    (\E w \in Workers : wpc[w] = "done") =>
        (pending = <<>> /\ \A v \in Workers : ~InFlight(v))

\* C4: under fair scheduling the run reaches pending empty, active_workers = 0
\* and every worker exited.
C4_Terminates == <>(pending = <<>> /\ active_workers = 0 /\ AllDone)

C4_Witness == AllDone /\ completed # {} /\ failed # {} /\ total_completed >= 3

\* C6: when the run has finished and no clone failed (no depth limit), completed
\* is the set of declared target paths with a URL that were not on disk,
\* total_discovered is its size, and failed is empty.
C6_SelfExtending ==
    (AllDone /\ failed = {} /\ Unlimited) =>
        /\ completed = DeclaredFrom(Root)
        /\ total_discovered = Cardinality(DeclaredFrom(Root))

\* The part of C6 the code keeps: the completed set.
C6_CompletedSet ==
    (AllDone /\ failed = {} /\ Unlimited) => completed = DeclaredFrom(Root)

----------------------------------------------------------------------------
(* Properties of the queue's operations (SpecQueue) *)

\* C2: total_discovered is the number of distinct target paths pushed while
\* absent from completed.
C2_TotalDiscoveredDistinct == total_discovered = Cardinality(pushed_fresh)

\* The tasks a step appended to pending.
Admitted == SubSeq(pending', Len(pending) + 1, Len(pending'))

\* C5: with meta_depth = Some(k), push_from_meta and mark_completed only append
\* tasks of depth_level <= k, and push_from_meta called beyond the limit returns
\* 0 and changes nothing.
C5_DepthGate ==
    [][(last'.op \in {"push_from_meta", "mark_completed"} /\ meta_depth.some) =>
        /\ SubSeq(pending', 1, Len(pending)) = pending
        /\ \A i \in 1..Len(Admitted) : Admitted[i].depth_level <= meta_depth.val
        /\ (last'.op = "push_from_meta" /\ last'.depth > meta_depth.val) =>
               (last'.n = 0 /\ UNCHANGED qvars)]_vars

\* mark_completed met the closed gate on a cloned repository whose manifest
\* declares a project that would otherwise be admitted.
C5_Witness ==
    /\ last.op = "mark_completed"
    /\ DepthGateClosed(last.depth)
    /\ last.n = 0
    /\ FindMetaConfigIn(last.base)
    /\ \E i \in 1..Len(ParseMetaConfig(last.base)) :
        LET project == ParseMetaConfig(last.base)[i]
            t == Join(last.base, project.path)
        IN  project.repo /\ ~Exists(t) /\ t \notin completed /\ t \notin PendingPaths(pending)

\* C7: mark_failed adds one to total_completed, inserts the path into failed and
\* changes neither completed, pending nor total_discovered.
C7_MarkFailed ==
    [][last'.op = "mark_failed" =>
        /\ total_completed' = total_completed + 1
        /\ failed' = failed \cup {last'.task.target_path}
        /\ completed' = completed
        /\ pending' = pending
        /\ total_discovered' = total_discovered]_vars

C7_Witness ==
    /\ last.op = "mark_failed"
    /\ pending # <<>>
    /\ last.task.target_path \in failed
    /\ last.task.target_path \notin completed

\* C8: push admits the task iff its target path is neither in completed nor in
\* pending; admitted, it is appended and total_discovered grows by one;
\* otherwise the queue is unchanged.
C8_PushAdmission ==
    [][last'.op = "push" =>
        LET task == last'.task
            fresh == /\ task.target_path \notin completed
                     /\ task.target_path \notin PendingPaths(pending)
        IN  /\ last'.ok <=> fresh
            /\ fresh =>
                /\ pending' = Append(pending, task)
                /\ total_discovered' = total_discovered + 1
                /\ UNCHANGED <<completed, failed, total_completed>>
            /\ ~fresh => UNCHANGED qvars]_vars

C8_Witness ==
    /\ last.op = "push"
    /\ ~last.ok
    /\ last.task.target_path \in PendingPaths(pending)
    /\ last.task.target_path \notin completed

----------------------------------------------------------------------------
(* Skip existing (SpecSched) *)

\* The step is the discovery from the root.
IsDiscoverStep == phase = "discover" /\ phase' = "run"

\* The step is worker w's mark_completed.
IsMarkCompletedStep(w) == wpc[w] = "mark_completed" /\ wpc'[w] = "dec"

DeclaredTargets(base) ==
    {Join(base, ParseMetaConfig(base)[i].path) : i \in 1..Len(ParseMetaConfig(base))}

\* What push_from_meta(base, d) does with the declared projects whose directory
\* exists: none is admitted, and the projects its manifest declares are admitted
\* at d + 1 when they have a URL, are not on disk and are not known already.
SkipsAndRecurses(base, d) ==
    (~DepthGateClosed(d) /\ FindMetaConfigIn(base)) =>
        \A x \in DeclaredTargets(base) :
            Exists(x) =>
                /\ x \notin PendingPaths(Admitted)
                /\ (FindMetaConfigIn(x) /\ ~DepthGateClosed(d + 1)) =>
                    \A j \in 1..Len(ParseMetaConfig(x)) :
                        LET nested == ParseMetaConfig(x)[j]
                            y == Join(x, nested.path)
                        IN  (/\ nested.repo
                             /\ ~Exists(y)
                             /\ y \notin completed'
                             /\ y \notin PendingPaths(pending)) =>
                                \E k \in 1..Len(Admitted) :
                                    /\ Admitted[k].target_path = y
                                    /\ Admitted[k].is_meta = nested.meta
                                    /\ \/ Admitted[k].depth_level = d + 1
                                       \/ y \in DeclaredTargets(base)

\* A directory that was on disk before the run is never a task.
PreexistingNeverTasks ==
    /\ preexisting \cap (PendingPaths(pending) \cup completed \cup failed) = {}
    /\ \A w \in Workers : InFlight(w) => wtask[w].target_path \notin preexisting

\* C9: a declared project whose directory already exists is never admitted (it
\* is never in pending, completed or failed), and the projects its own manifest
\* declares are discovered at depth_level + 1 and admitted under the same rules.
C9_SkipExisting ==
    /\ []PreexistingNeverTasks
    /\ [][/\ IsDiscoverStep => SkipsAndRecurses(Root, 0)
          /\ \A w \in Workers :
                IsMarkCompletedStep(w) =>
                    SkipsAndRecurses(wtask[w].target_path, wtask[w].depth_level + 1)]_vars

\* The discovery met "a" on disk with a manifest and queued its "b" at depth 1.
C9_Witness ==
    /\ phase = "run"
    /\ total_completed = 0
    /\ DirA \in preexisting
    /\ DirAB \notin preexisting
    /\ remote[Root].projects[1].repo
    /\ \E i \in 1..Len(pending) : pending[i] = Task(DirAB, 1, FALSE)
    /\ DirA \notin PendingPaths(pending)

----------------------------------------------------------------------------
(* Ordered removal (SpecRemove) *)

\* C10: every removal of "." is issued after every removal of another alias.
C10_RootRemovedLast ==
    \A i, j \in 1..Len(rm_trace) :
        (rm_trace[i].alias = "." /\ rm_trace[j].alias # ".") => j < i

\* "." came first in the list, two children followed, and "." was removed last.
C10_Witness ==
    /\ rm_pc = "done"
    /\ Len(rm_repos) = 3
    /\ rm_repos[1] = "."
    /\ Len(rm_trace) = 3
    /\ rm_trace[3].alias = "."
    /\ rm_trace[1].alias # "." /\ rm_trace[2].alias # "."

\* The removals that failed so far, and the entries of the list that were attempted.
FailedRemovals == {i \in 1..Len(rm_trace) : ~rm_trace[i].ok}
AttemptedEntries == {rm_trace[i].idx : i \in 1..Len(rm_trace)}

\* The entries the function is to remove: every child, and the "." entry it looks up.
EntriesToRemove ==
    {i \in 1..Len(rm_repos) :
        rm_repos[i] = "." => \A j \in 1..(i - 1) : rm_repos[j] # "."}

\* C11: without force the first failing removal is the last removal issued and
\* the call returns that error, so "." is not removed after a child failed and a
\* call that returns Ok has no failed removal; with force every entry is
\* attempted whatever failed, the call returns Ok, and the count it returns is
\* the number of removals that failed.
C11_FailureHandling ==
    /\ ~rm_force =>
        /\ \A i \in FailedRemovals :
            i = Len(rm_trace) /\ rm_pc = "done" /\ rm_result = "err"
        /\ rm_result = "err" => Len(rm_trace) \in FailedRemovals
        /\ (\E i \in FailedRemovals : rm_trace[i].alias # ".") =>
            \A j \in 1..Len(rm_trace) : rm_trace[j].alias # "."
        /\ rm_failures = 0
    /\ (rm_force /\ rm_pc = "done") =>
        /\ rm_result = "ok"
        /\ AttemptedEntries = EntriesToRemove
        /\ Len(rm_trace) = Cardinality(EntriesToRemove)
        /\ rm_failures = Cardinality(FailedRemovals)

\* With force, the first child and "." failed, the second child was still
\* removed, and the call returned Ok(2).
C11_Witness ==
    /\ rm_force
    /\ rm_pc = "done"
    /\ rm_result = "ok"
    /\ Len(rm_trace) = 3
    /\ ~rm_trace[1].ok /\ rm_trace[2].ok /\ ~rm_trace[3].ok
    /\ rm_trace[3].alias = "."
    /\ rm_failures = 2

\* Without force, the first child failed: the call returned the error with one
\* removal issued although a second child and "." were listed.
C11_WitnessNoForce ==
    /\ ~rm_force
    /\ rm_pc = "done"
    /\ rm_result = "err"
    /\ Len(rm_repos) = 3
    /\ \E i \in 1..3 : rm_repos[i] = "."
    /\ Len(rm_trace) = 1
    /\ rm_trace[1].alias # "."

----------------------------------------------------------------------------
(* git_worktree_add (src/src/worktree/git_ops.rs) on one source repository *)

MaxAdds == 2

Branches == {"feat", "fix"}

\* The refs a from_ref may name: "v1" resolves in the source repo, "v2" does not.
Tags == {"v1"}
RefNames == {"v1", "v2"}

NoRef == [some |-> FALSE, name |-> ""]
SomeRef(name) == [some |-> TRUE, name |-> name]
FromRefs == {NoRef} \cup {SomeRef(n) : n \in RefNames}

\* A rev-parse that finds every name.
RevParseAny(refs, name) == TRUE

\* git rev-parse --verify <name>, exit status
RevParseVerify(refs, name) == name \in refs

\* let created_branch = !branch_exists && !remote_branch_exists
CreatedBranch(branch_exists, remote_branch_exists) ==
    ~branch_exists /\ ~remote_branch_exists

\* The arguments of git worktree add chosen for a branch.
WtArgs(branch_exists, remote_branch_exists) ==
    IF branch_exists THEN "worktree add <dest> <branch>"
    ELSE IF remote_branch_exists THEN "worktree add --track -b <branch> <dest> origin/<branch>"
    ELSE "worktree add -b <branch> <dest>"

WtArgsFromRef == "worktree add -b <branch> <dest> <ref>"

\* git refuses -b for a branch that exists, and refuses to check out a branch
\* that another worktree has checked out.
GitCanAdd(args, branch) ==
    IF args = "worktree add <dest> <branch>"
    THEN branch \in wa_heads /\ branch \notin wa_checked
    ELSE branch \notin wa_heads

\* The error a call returns: none, "Ref '<ref>' not found in repo ..." or
\* "git worktree add failed for ... (branch: <branch>, ref: <ref>)".
NoAddErr == [kind |-> "none", ref |-> ""]
RefNotFound(ref_name) == [kind |-> "ref not found", ref |-> ref_name]
WorktreeAddFailed(ref_name) == [kind |-> "worktree add failed", ref |-> ref_name]

Added(branch, from_ref, had_local, had_remote, cmd, ok, created_branch, err) ==
    [op |-> "add", branch |-> branch, from_ref |-> from_ref.name,
     had_local |-> had_local, had_remote |-> had_remote, cmd |-> cmd,
     ok |-> ok, created_branch |-> created_branch, err |-> err]

\* One call of git_worktree_add(repo_path, worktree_dest, branch, from_ref);
\* git_ok is whether git worktree add succeeds when nothing forbids it.
GitWorktreeAdd ==
    /\ wa_calls < MaxAdds
    /\ wa_calls' = wa_calls + 1
    /\ \E branch \in Branches, from_ref \in FromRefs, git_ok \in BOOLEAN :
        LET had_local == branch \in wa_heads
            had_remote == branch \in wa_remotes
            branch_exists == RevParseVerify(wa_heads, branch)
            remote_branch_exists ==
                IF ~branch_exists THEN RevParseVerify(wa_remotes, branch) ELSE FALSE
            args == IF from_ref.some THEN WtArgsFromRef
                    ELSE WtArgs(branch_exists, remote_branch_exists)
            checks == IF from_ref.some THEN <<"rev-parse <ref>">>
                      ELSE IF branch_exists THEN <<"rev-parse refs/heads">>
                      ELSE <<"rev-parse refs/heads", "rev-parse refs/remotes/origin">>
            ok == git_ok /\ GitCanAdd(args, branch)
        IN  IF from_ref.some /\ ~RevParseVerify(Tags, from_ref.name)
            THEN /\ wa_last' = Added(branch, from_ref, had_local, had_remote,
                                     checks, FALSE, FALSE, RefNotFound(from_ref.name))
                 /\ UNCHANGED <<wa_heads, wa_checked>>
            ELSE /\ wa_last' = Added(branch, from_ref, had_local, had_remote,
                                     Append(checks, args), ok,
                                     ok /\ (IF from_ref.some THEN TRUE
                                            ELSE CreatedBranch(branch_exists,
                                                               remote_branch_exists)),
                                     IF ok THEN NoAddErr
                                     ELSE WorktreeAddFailed(from_ref.name))
                 /\ wa_heads' = IF ok THEN wa_heads \cup {branch} ELSE wa_heads
                 /\ wa_checked' = IF ok THEN wa_checked \cup {branch} ELSE wa_checked
    /\ UNCHANGED <<wa_remotes, notwa>>

InitWorktreeAdd ==
    /\ InitIdleQueue
    /\ InitRm
    /\ InitLibIdle("worktree_add")
    /\ wa_heads \in SUBSET Branches
    /\ wa_remotes \in SUBSET Branches
    /\ wa_checked = {}
    /\ wa_calls = 0
    /\ wa_last = NoAdd

NextWorktreeAdd == GitWorktreeAdd

SpecWorktreeAdd == InitWorktreeAdd /\ [][NextWorktreeAdd]_vars

\* C12: a successful call without from_ref attaches refs/heads/<branch> when it
\* exists and reports created_branch = false; otherwise it creates a tracking
\* branch from refs/remotes/origin/<branch> when that exists, or else a new
\* branch from HEAD, and in both cases reports created_branch = true.
C12_BranchResolution ==
    (wa_last.op = "add" /\ wa_last.from_ref = "" /\ wa_last.ok) =>
        LET add == wa_last.cmd[Len(wa_last.cmd)]
        IN  IF wa_last.had_local
            THEN add = "worktree add <dest> <branch>" /\ ~wa_last.created_branch
            ELSE IF wa_last.had_remote
            THEN /\ add = "worktree add --track -b <branch> <dest> origin/<branch>"
                 /\ wa_last.created_branch
            ELSE add = "worktree add -b <branch> <dest>" /\ wa_last.created_branch

----------------------------------------------------------------------------
(* The worktree store (src/src/worktree/store.rs), one caller *)

MaxStoreCalls == 3

\* Two worktree directories, and three ways to spell the first one: its real
\* path, a symlink to it, and a path through one of its subdirectories and "..".
WtReal == "/t/wt"
WtLink == "/t/link"
WtDots == "/t/wt/sub/../."
Wt2 == "/t/wt2"
PhysDirs == {WtReal, Wt2}
Spellings == {WtReal, WtLink, WtDots, Wt2}

\* The directory a spelling leads to.
Resolve(path) == IF path = Wt2 THEN Wt2 ELSE WtReal

\* Path::canonicalize: the resolved path when every component exists, else an error.
Canonicalize(path, dirs) ==
    IF Resolve(path) \in dirs THEN [ok |-> TRUE, path |-> Resolve(path)]
    ELSE [ok |-> FALSE, path |-> path]

\* A store key that is always the path as given.
StoreKeyLiteral(worktree_path, dirs) == worktree_path

\* store_key: the canonical path, or the path as given when canonicalize fails
StoreKey(worktree_path, dirs) ==
    LET c == Canonicalize(worktree_path, dirs)
    IN  IF c.ok THEN c.path ELSE worktree_path

EntryNames == {"e1", "e2"}
Entry(name, repos) == [name |-> name, repos |-> repos]
NewEntries == {Entry(n, <<>>) : n \in EntryNames}
MoreRepos == <<"r">>

\* meta_core::store::read: the map in the file, the default when it is missing
ReadStore(file) == IF file.exists THEN file.worktrees ELSE NoWorktrees

\* the write that ends meta_core::store::update: the file holds the mutated map
WriteStore(worktrees) == [exists |-> TRUE, worktrees |-> worktrees]

\* store.worktrees.insert(key, entry)
Insert(worktrees, key, entry) ==
    [k \in DOMAIN worktrees \cup {key} |-> IF k = key THEN entry ELSE worktrees[k]]

\* A batch removal that gives up when one of its keys has no entry.
RemoveKeysStrict(worktrees, keys) ==
    IF keys \subseteq DOMAIN worktrees
    THEN [k \in DOMAIN worktrees \ keys |-> worktrees[k]]
    ELSE worktrees

\* store.worktrees.remove(key), once per key
RemoveKeys(worktrees, keys) ==
    [k \in DOMAIN worktrees \ keys |-> worktrees[k]]

\* if let Some(entry) = store.worktrees.get_mut(&key) { entry.repos.extend(repos) }
ExtendRepos(worktrees, key, repos) ==
    IF key \in DOMAIN worktrees
    THEN [worktrees EXCEPT ![key].repos = @ \o repos]
    ELSE worktrees

StoreCall(op, path, key, keys, entry, repos, ok) ==
    [op |-> op, path |-> path, key |-> key, keys |-> keys, entry |-> entry,
     repos |-> repos, ok |-> ok]

\* The closure a call hands to update, applied to the map it is given.
Mutate(call, worktrees) ==
    CASE call.op = "store_add" -> Insert(worktrees, call.key, call.entry)
      [] call.op = "store_remove" -> RemoveKeys(worktrees, {call.key})
      [] call.op = "store_remove_batch" -> RemoveKeys(worktrees, call.keys)
      [] call.op = "store_extend_repos" -> ExtendRepos(worktrees, call.key, call.repos)
      [] OTHER -> worktrees

\* No call returns early.
SkipsNothing(call) == FALSE

\* store_remove and store_remove_batch return early when the file is missing.
SkipsMissingFile(call) == call.op \in {"store_remove", "store_remove_batch"}

\* A whole call, run alone: the file it leaves.
RunCall(call, file) ==
    IF ~call.ok \/ (SkipsMissingFile(call) /\ ~file.exists) THEN file
    ELSE WriteStore(Mutate(call, ReadStore(file)))

\* The frame of the single-caller store actions.
storeframe == <<notstore, st_lock, sp_pc, sp_call, sp_snap, st_serial>>

\* What a call returns: Ok(()) at once when it skips a missing file, else the
\* result of update (io_ok: ensure_meta_dir, the lock and the write succeed).
CallOk(op, file, io_ok) ==
    IF op \in {"store_remove", "store_remove_batch"} /\ ~file.exists THEN TRUE ELSE io_ok

Called(call) ==
    /\ st_calls' = st_calls + 1
    /\ st_file' = RunCall(call, st_file)
    /\ st_last' = call
    /\ st_fallback' = (st_fallback \/
                        (call.op = "store_add" /\ call.ok /\
                         ~Canonicalize(call.path, st_dirs).ok))
    /\ UNCHANGED <<st_dirs, storeframe>>

\* store_add(worktree_path, entry)
StoreAdd ==
    /\ st_calls < MaxStoreCalls
    /\ \E path \in Spellings, entry \in NewEntries, io_ok \in BOOLEAN :
            Called(StoreCall("store_add", path, StoreKey(path, st_dirs), {}, entry, <<>>,
                             CallOk("store_add", st_file, io_ok)))

\* store_remove(worktree_path)
StoreRemove ==
    /\ st_calls < MaxStoreCalls
    /\ \E path \in Spellings, io_ok \in BOOLEAN :
            Called(StoreCall("store_remove", path, StoreKey(path, st_dirs), {}, NoEntry, <<>>,
                             CallOk("store_remove", st_file, io_ok)))

\* store_extend_repos(worktree_path, repos)
StoreExtendRepos ==
    /\ st_calls < MaxStoreCalls
    /\ \E path \in Spellings, io_ok \in BOOLEAN :
            Called(StoreCall("store_extend_repos", path, StoreKey(path, st_dirs), {}, NoEntry,
                             MoreRepos, CallOk("store_extend_repos", st_file, io_ok)))

\* store_remove_batch(keys)
StoreRemoveBatch ==
    /\ st_calls < MaxStoreCalls
    /\ \E keys \in SUBSET PhysDirs, io_ok \in BOOLEAN :
            Called(StoreCall("store_remove_batch", "", "", keys, NoEntry, <<>>,
                             CallOk("store_remove_batch", st_file, io_ok)))

\* store_list(): the map that read returns; the file is left alone
StoreList ==
    /\ st_calls < MaxStoreCalls
    /\ st_calls' = st_calls + 1
    /\ st_last' = [op |-> "store_list", path |-> "", key |-> "", keys |-> {},
                   entry |-> NoEntry, repos |-> <<>>, ok |-> TRUE,
                   listed |-> ReadStore(st_file)]
    /\ UNCHANGED <<st_file, st_fallback, st_dirs, storeframe>>

\* Between calls a worktree directory is created or deleted.
Mkdir ==
    /\ \E d \in PhysDirs \ st_dirs : st_dirs' = st_dirs \cup {d}
    /\ UNCHANGED <<st_file, st_calls, st_last, st_fallback, storeframe>>

Rmdir ==
    /\ \E d \in st_dirs : st_dirs' = st_dirs \ {d}
    /\ UNCHANGED <<st_file, st_calls, st_last, st_fallback, storeframe>>

InitStore ==
    /\ InitIdleQueue
    /\ InitRm
    /\ InitLibIdle("store")
    /\ st_dirs \in SUBSET PhysDirs
    /\ st_file = MissingFile
    /\ st_calls = 0
    /\ st_last = NoStoreCall
    /\ st_fallback = FALSE
    /\ st_lock = 0
    /\ sp_pc = [p \in StoreProcs |-> "idle"]
    /\ sp_call = [p \in StoreProcs |-> NoStoreCall]
    /\ sp_snap = [p \in StoreProcs |-> NoWorktrees]
    /\ st_serial = MissingFile

NextStore ==
    \/ StoreAdd
    \/ StoreRemove
    \/ StoreExtendRepos
    \/ StoreRemoveBatch
    \/ StoreList
    \/ Mkdir
    \/ Rmdir

SpecStore == InitStore /\ [][NextStore]_vars

----------------------------------------------------------------------------
(* Worktree store, one caller (SpecStore) *)

\* The step is a successful store_add of a path whose directory exists.
IsCanonicalAdd ==
    /\ st_calls' = st_calls + 1
    /\ st_last'.op = "store_add"
    /\ st_last'.ok
    /\ Resolve(st_last'.path) \in st_dirs

\* No two keys of the store file lead to the same directory.
OneEntryPerDirectory ==
    \A k1, k2 \in DOMAIN ReadStore(st_file) : Resolve(k1) = Resolve(k2) => k1 = k2

\* C13: a successful store_add of a path whose canonical form exists leaves the
\* entry under the canonical path, whichever spelling (real path, symlink, path
\* with "." and "..") was given, and while every entry was added that way the
\* store holds at most one entry per physical directory.
C13_Canonicality ==
    /\ [](~st_fallback => OneEntryPerDirectory)
    /\ [][IsCanonicalAdd =>
            LET canonical == Resolve(st_last'.path)
                after == ReadStore(st_file')
            IN  /\ st_last'.key = canonical
                /\ canonical \in DOMAIN after
                /\ after[canonical] = st_last'.entry
                /\ \A k \in DOMAIN after :
                    Resolve(k) = canonical /\ k # canonical => k \in DOMAIN ReadStore(st_file)]_vars

\* The directory was registered, then registered again through the path with
\* ".." under another name: the store holds the one row, with the later entry.
C13_Witness ==
    /\ st_calls = 2
    /\ ~st_fallback
    /\ WtReal \in st_dirs
    /\ st_last.op = "store_add" /\ st_last.ok /\ st_last.path = WtDots
    /\ st_last.entry.name = "e2"
    /\ DOMAIN ReadStore(st_file) = {WtReal}
    /\ ReadStore(st_file)[WtReal] = Entry("e2", <<>>)

----------------------------------------------------------------------------
(* The worktree store under concurrent callers: each call's steps through    *)
(* update (lock, read, mutate and write, unlock)                             *)

MaxConcurrentCalls == 2

\* The lock is taken without waiting for its holder.
LockAlwaysFree(lock) == TRUE

\* update step 1: the exclusive lock is granted when nobody holds it
LockFree(lock) == lock = 0

ConcurrentCalls ==
    {StoreCall("store_add", path, StoreKey(path, st_dirs), {}, entry, <<>>, TRUE) :
        path \in Spellings, entry \in NewEntries} \cup
    {StoreCall("store_remove", path, StoreKey(path, st_dirs), {}, NoEntry, <<>>, TRUE) :
        path \in Spellings} \cup
    {StoreCall("store_extend_repos", path, StoreKey(path, st_dirs), {}, NoEntry,
               MoreRepos, TRUE) : path \in Spellings} \cup
    {StoreCall("store_remove_batch", "", "", keys, NoEntry, <<>>, TRUE) :
        keys \in SUBSET PhysDirs}

concframe == <<notstore, st_dirs, st_last, st_fallback>>

\* A process enters a call: it derives the key, and store_remove and
\* store_remove_batch return at once when the store file is missing.
PBegin(p) ==
    /\ sp_pc[p] = "idle"
    /\ st_calls < MaxConcurrentCalls
    /\ st_calls' = st_calls + 1
    /\ \E call \in ConcurrentCalls :
        IF SkipsMissingFile(call) /\ ~st_file.exists
        THEN /\ st_serial' = RunCall(call, st_serial)
             /\ UNCHANGED <<sp_pc, sp_call>>
        ELSE /\ sp_call' = [sp_call EXCEPT ![p] = call]
             /\ sp_pc' = [sp_pc EXCEPT ![p] = "lock"]
             /\ UNCHANGED st_serial
    /\ UNCHANGED <<st_file, st_lock, sp_snap, concframe>>

\* update step 1: acquire the exclusive lock (blocking)
PLock(p) ==
    /\ sp_pc[p] = "lock"
    /\ LockFree(st_lock)
    /\ st_lock' = p
    /\ sp_pc' = [sp_pc EXCEPT ![p] = "read"]
    /\ UNCHANGED <<st_file, st_calls, sp_call, sp_snap, st_serial, concframe>>

\* update step 2: read the file into memory
PRead(p) ==
    /\ sp_pc[p] = "read"
    /\ sp_snap' = [sp_snap EXCEPT ![p] = ReadStore(st_file)]
    /\ sp_pc' = [sp_pc EXCEPT ![p] = "write"]
    /\ UNCHANGED <<st_file, st_calls, st_lock, sp_call, st_serial, concframe>>

\* update steps 3 and 4: apply the closure and replace the file, or fail and
\* leave the file as it was.
PWrite(p) ==
    /\ sp_pc[p] = "write"
    /\ \E io_ok \in BOOLEAN :
        /\ sp_call' = [sp_call EXCEPT ![p].ok = io_ok]
        /\ st_file' = IF io_ok THEN WriteStore(Mutate(sp_call[p], sp_snap[p])) ELSE st_file
        /\ st_serial' = RunCall(sp_call'[p], st_serial)
    /\ sp_pc' = [sp_pc EXCEPT ![p] = "unlock"]
    /\ UNCHANGED <<st_calls, st_lock, sp_snap, concframe>>

\* update step 5: release the lock; the call returns
PUnlock(p) ==
    /\ sp_pc[p] = "unlock"
    /\ st_lock' = 0
    /\ sp_call' = [sp_call EXCEPT ![p] = NoStoreCall]
    /\ sp_snap' = [sp_snap EXCEPT ![p] = NoWorktrees]
    /\ sp_pc' = [sp_pc EXCEPT ![p] = "idle"]
    /\ UNCHANGED <<st_file, st_calls, st_serial, concframe>>

NextStoreConcurrent ==
    \E p \in StoreProcs : PBegin(p) \/ PLock(p) \/ PRead(p) \/ PWrite(p) \/ PUnlock(p)

SpecStoreConcurrent == InitStore /\ [][NextStoreConcurrent]_vars

\* C14: a process is between its read and its release only while it holds the
\* lock, at most one process is there at a time, and the store file always
\* equals the result of applying the calls that took effect so far one after
\* another, so no update is lost.
C14_Serialised ==
    /\ \A p \in StoreProcs : sp_pc[p] \in {"read", "write", "unlock"} => st_lock = p
    /\ st_file = st_serial

\* Two processes ran store_add for two different directories at the same time
\* (the second entered its call while the first held the lock): the first's
\* entry is in the file and the second waits for the lock.
C14_Witness ==
    /\ st_calls = 2
    /\ sp_pc[1] = "unlock" /\ sp_call[1].op = "store_add" /\ sp_call[1].ok
    /\ sp_pc[2] = "lock" /\ sp_call[2].op = "store_add"
    /\ sp_call[1].key # sp_call[2].key
    /\ sp_call[1].key \in DOMAIN st_file.worktrees

----------------------------------------------------------------------------
(* entry_ttl_remaining (src/src/worktree/store.rs), with the 64-bit integers *)
(* of the code scaled to Width bits: ttl_seconds is unsigned, created,       *)
(* now_epoch and the result are signed                                       *)

Width == 3

UMax == 2^Width - 1
IMin == -(2^(Width - 1))
IMax == 2^(Width - 1) - 1
Unsigned == 0..UMax
Signed == IMin..IMax

\* The epoch seconds of a well-formed RFC 3339 created_at: a few values around
\* the epoch, far from the ends of the signed range.
Timestamps == {-1, 0, 1}

\* `ttl as i64`: the same bits read as a signed value
AsSigned(u) == IF u > IMax THEN u - 2^Width ELSE u

\* The signed value a wrapping operation leaves for the exact result x.
Wrap(x) == ((x - IMin) % (2^Width)) + IMin

Overflows(x) == x < IMin \/ x > IMax

Remaining(panicked, some, val) ==
    [called |-> TRUE, panicked |-> panicked, some |-> some, val |-> val]

\* entry_ttl_remaining(entry, now_epoch); debug: overflow checks are compiled in
EntryTtlRemaining(entry, now_epoch, debug) ==
    IF ~entry.ttl.some THEN Remaining(FALSE, FALSE, 0)
    ELSE IF ~entry.created.ok THEN Remaining(FALSE, TRUE, IMax)
    ELSE LET created == entry.created.ts
             sum == created + AsSigned(entry.ttl.val)
             diff == Wrap(sum) - now_epoch
         IN  IF debug /\ (Overflows(sum) \/ Overflows(diff))
             THEN Remaining(TRUE, FALSE, 0)
             ELSE Remaining(FALSE, TRUE, Wrap(diff))

\* One call on the entry, at any now_epoch.
TtlRemaining ==
    /\ \E now_epoch \in Signed :
        /\ tt_now' = now_epoch
        /\ tt_out' = EntryTtlRemaining(tt_entry, now_epoch, tt_debug)
    /\ tt_prev' = [now |-> tt_now, out |-> tt_out]
    /\ UNCHANGED <<tt_entry, tt_debug, notttl>>

InitTtl ==
    /\ InitIdleQueue
    /\ InitRm
    /\ InitLibIdle("ttl")
    /\ tt_entry \in [ttl : {NoTtl} \cup [some : {TRUE}, val : Unsigned],
                     created : {[ok |-> FALSE, ts |-> 0]} \cup [ok : {TRUE}, ts : Timestamps]]
    /\ tt_debug \in BOOLEAN
    /\ tt_now = 0
    /\ tt_out = NoRemaining
    /\ tt_prev = NoPrev

NextTtl == TtlRemaining

SpecTtl == InitTtl /\ [][NextTtl]_vars

\* C15: for an entry with a well-formed created_at c, the call returns nothing
\* exactly when the entry has no ttl, and otherwise returns c + t - now, which
\* is negative exactly when now > c + t and does not increase with now.
C15_TtlRemaining ==
    (tt_out.called /\ tt_entry.created.ok) =>
        LET c == tt_entry.created.ts
            t == tt_entry.ttl.val
        IN  /\ ~tt_out.panicked
            /\ tt_out.some = tt_entry.ttl.some
            /\ tt_out.some =>
                /\ tt_out.val = c + t - tt_now
                /\ (tt_out.val < 0) = (tt_now > c + t)
                /\ (tt_prev.out.called /\ tt_prev.now <= tt_now) =>
                        tt_out.val <= tt_prev.out.val

----------------------------------------------------------------------------
(* Snapshots (src/src/snapshot.rs): capture_repo_state and                   *)
(* restore_repo_state on one repository                                      *)

MaxStashes == 2

Commits == {"c1", "c2"}
SnBranch(name) == [some |-> TRUE, name |-> name]
SnBranches == {NoBranch, SnBranch("main")}

\* A sha string: the full name of a commit, as rev-parse HEAD prints it, or an
\* abbreviation of it, as a snapshot file written by hand may hold.
FullShaLen == 40
ShortShaLen == 7
PrefixLen == 8
Sha(commit, short) == [commit |-> commit, short |-> short]
ShaLen(sha) == IF sha.short THEN ShortShaLen ELSE FullShaLen

RepoState(sha, branch, dirty) ==
    [sha |-> sha, branch |-> branch, dirty |-> dirty, stash_created |-> FALSE]

\* What git writes to stderr when checkout <sha> fails.
StderrPathspec == "error: pathspec did not match any file(s) known to git"
StderrNotACommit == "fatal: not a commit"
StderrNotATree == "fatal: reference is not a tree"
StderrLocked == "fatal: unable to create index.lock"
UnknownShaStderrs == {StderrPathspec, StderrNotACommit, StderrNotATree}

\* stderr.contains(needle)
StderrContains(stderr, needle) ==
    \/ needle = "did not match any" /\ stderr = StderrPathspec
    \/ needle = "not a commit" /\ stderr = StderrNotACommit

\* &state.sha[..8] panics when the string is shorter than 8 bytes
SliceFits(sha) == ShaLen(sha) >= PrefixLen

\* A result that never reports a stash.
ReturnedUnstashed(success, stashed, message) ==
    [kind |-> "ok", success |-> success, stashed |-> FALSE, message |-> message]

Returned(success, stashed, message) ==
    [kind |-> "ok", success |-> success, stashed |-> stashed, message |-> message]
Propagated == [kind |-> "err", success |-> FALSE, stashed |-> FALSE, message |-> <<>>]
Panicked == [kind |-> "panic", success |-> FALSE, stashed |-> FALSE, message |-> <<>>]

\* A message built with &state.sha[..8].
WithPrefix(sha, success, stashed, message) ==
    IF SliceFits(sha) THEN Returned(success, stashed, message) ELSE Panicked

\* The outcome of each command of one restore: the dirty probe answers or
\* errs; stash, checkout and checkout -B succeed, fail, or cannot be spawned.
CmdOutcomes == {"ok", "fail", "spawn"}
Outcomes ==
    [probe : {"ok", "err"}, stash : CmdOutcomes, checkout : CmdOutcomes,
     stderr : UnknownShaStderrs \cup {StderrLocked}, reattach : CmdOutcomes]

\* The outcomes git can produce on this repository for this sha; without
\* faults a command fails only because the commit is unknown.
GitAllows(repo, state, o, faults) ==
    /\ o.checkout = "ok" => state.sha.commit \in repo.commits
    /\ o.checkout = "ok" => o.stderr = StderrLocked
    /\ (o.checkout # "ok" /\ state.sha.commit \notin repo.commits) =>
            o.stderr \in UnknownShaStderrs
    /\ (o.checkout # "ok" /\ state.sha.commit \in repo.commits) => o.stderr = StderrLocked
    /\ ~faults =>
        /\ o.probe = "ok" /\ o.stash = "ok" /\ o.reattach = "ok"
        /\ o.checkout = (IF state.sha.commit \in repo.commits THEN "ok" ELSE "fail")

Restored(repo, cmds, result) == [repo |-> repo, cmds |-> cmds, result |-> result]

\* A git command that was run, how it ended and what it wrote to stderr.
Ran(cmd, status, stderr) == [cmd |-> cmd, status |-> status, stderr |-> stderr]

\* git checkout <sha>: HEAD detached at the commit
CheckoutSha(repo, commit) == [repo EXCEPT !.head = commit, !.branch = NoBranch]

\* A reattach that leaves HEAD detached.
CheckoutBNothing(repo, branch) == repo

\* git checkout -B <branch> <sha>, at the commit already: HEAD on the branch
CheckoutB(repo, branch) == [repo EXCEPT !.branch = branch]

\* git stash push: the working tree is clean, the changes are on the stash
StashPush(repo) == [repo EXCEPT !.dirty = FALSE, !.stashes = @ + 1]

\* After checkout <sha> succeeded: the reattach of the branch, when the state has one.
RestoreBranch(repo, state, o, cmds, stashed) ==
    IF state.branch.some
    THEN LET cmds3 == Append(cmds, Ran("checkout -B <branch> <sha>", o.reattach, ""))
         IN  IF o.reattach = "spawn" THEN Restored(repo, cmds3, Propagated)
             ELSE IF o.reattach = "fail"
             THEN Restored(repo, cmds3,
                    WithPrefix(state.sha, TRUE, stashed,
                        <<"Restored to", state.sha.commit, "couldn't restore branch",
                          state.branch.name>>))
             ELSE Restored(CheckoutB(repo, state.branch), cmds3,
                    WithPrefix(state.sha, TRUE, stashed,
                        <<state.sha.commit, "->", state.branch.name>>))
    ELSE Restored(repo, cmds,
            WithPrefix(state.sha, TRUE, stashed, <<state.sha.commit, "(detached)">>))

\* From checkout <sha> on.
RestoreCheckout(repo, state, o, cmds, stashed) ==
    LET cmds2 == Append(cmds, Ran("checkout <sha>", o.checkout,
                                  IF o.checkout = "fail" THEN o.stderr ELSE ""))
    IN  IF o.checkout = "spawn" THEN Restored(repo, cmds2, Propagated)
        ELSE IF o.checkout = "fail"
        THEN IF StderrContains(o.stderr, "did not match any") \/
                StderrContains(o.stderr, "not a commit")
             THEN Restored(repo, cmds2,
                    WithPrefix(state.sha, FALSE, stashed,
                        <<"SHA", state.sha.commit, "no longer exists",
                          "Check git reflog for recovery options.">>))
             ELSE Restored(repo, cmds2,
                    Returned(FALSE, stashed, <<"Failed to checkout:", o.stderr>>))
        ELSE RestoreBranch(CheckoutSha(repo, state.sha.commit), state, o, cmds2, stashed)

\* restore_repo_state(repo_path, state, force): the repository it leaves, the
\* git commands it ran and what it returned.
RestoreRepoState(repo, state, o) ==
    LET is_dirty == o.probe = "ok" /\ repo.dirty
        stash == <<Ran("stash push", o.stash, IF o.stash = "fail" THEN "stderr" ELSE "")>>
    IN  IF is_dirty
        THEN IF o.stash = "spawn" THEN Restored(repo, stash, Propagated)
             ELSE IF o.stash = "fail"
             THEN Restored(repo, stash,
                    Returned(FALSE, FALSE, <<"Failed to stash:", "stderr">>))
             ELSE RestoreCheckout(StashPush(repo), state, o, stash, TRUE)
        ELSE RestoreCheckout(repo, state, o, <<>>, FALSE)

\* capture_repo_state(repo_path): rev-parse HEAD, current_branch, is_dirty
CaptureRepoState(repo, probe) ==
    RepoState(Sha(repo.head, FALSE), repo.branch, probe = "ok" /\ repo.dirty)

\* The states a restore may be given: what a snapshot file can hold.
FileStates ==
    {RepoState(Sha(c, short), b, FALSE) : c \in Commits, short \in BOOLEAN, b \in SnBranches}

\* An outcome is drawn only for a command that runs.
OnlyRun(repo, state, o) ==
    LET known == state.sha.commit \in repo.commits
        stash_runs == o.probe = "ok" /\ repo.dirty
        checkout_runs == ~stash_runs \/ o.stash = "ok"
    IN  /\ ~stash_runs => o.stash = "ok"
        /\ ~checkout_runs =>
            /\ o.checkout = (IF known THEN "ok" ELSE "fail")
            /\ o.stderr = (IF known THEN StderrLocked ELSE StderrPathspec)
        /\ (o.checkout = "spawn" /\ ~known) => o.stderr = StderrPathspec
        /\ ~(checkout_runs /\ o.checkout = "ok" /\ state.branch.some) => o.reattach = "ok"

\* capture_repo_state on the repository; a capture that follows the restore of
\* the capture before it closes a round trip.
SnCapture ==
    /\ \E probe \in {"ok", "err"} :
        /\ sn_faults \/ probe = "ok"
        /\ LET captured == CaptureRepoState(sn_repo, probe)
           IN  sn_trip' = IF sn_trip.stage = "restored"
                          THEN [sn_trip EXCEPT !.stage = "recaptured", !.second = captured]
                          ELSE [stage |-> "captured", first |-> captured, second |-> NoState]
    /\ sn_trip' # sn_trip
    /\ UNCHANGED <<sn_repo, sn_faults, sn_cmds, sn_result, sn_state, notsnapshot>>

\* restore_repo_state on the repository, with a state from a snapshot file or
\* with the state just captured.
SnRestore ==
    /\ sn_repo.stashes < MaxStashes
    /\ \E state \in FileStates \cup {sn_trip.first}, o \in Outcomes :
        /\ state # NoState
        /\ GitAllows(sn_repo, state, o, sn_faults)
        /\ OnlyRun(sn_repo, state, o)
        /\ LET r == RestoreRepoState(sn_repo, state, o)
           IN  /\ sn_repo' = r.repo
               /\ sn_cmds' = r.cmds
               /\ sn_result' = r.result
        /\ sn_state' = state
        /\ sn_trip' = IF sn_trip.stage = "captured" /\ state = sn_trip.first
                       THEN [sn_trip EXCEPT !.stage = "restored"]
                       ELSE NoTrip
    /\ UNCHANGED <<sn_faults, notsnapshot>>

\* Between the calls the user works in the repository: commits, switches or
\* detaches, edits files, or the unreferenced commits are collected.
SnWork ==
    /\ \E head \in Commits, branch \in SnBranches, dirty \in BOOLEAN,
          commits \in SUBSET Commits :
        /\ head \in commits
        /\ sn_repo' = Repo(head, branch, dirty, commits, sn_repo.stashes)
        /\ sn_repo' # sn_repo
    /\ sn_trip' = NoTrip
    /\ sn_cmds' = <<>>
    /\ sn_result' = NoResult
    /\ sn_state' = NoState
    /\ UNCHANGED <<sn_faults, notsnapshot>>

InitSnapshot ==
    /\ InitIdleQueue
    /\ InitRm
    /\ InitLibIdle("snapshot")
    /\ \E head \in Commits, branch \in SnBranches, dirty \in BOOLEAN :
        sn_repo = Repo(head, branch, dirty, Commits, 0)
    /\ sn_faults \in BOOLEAN
    /\ sn_trip = NoTrip
    /\ sn_cmds = <<>>
    /\ sn_result = NoResult
    /\ sn_state = NoState

NextSnapshot == SnCapture \/ SnRestore \/ SnWork

SpecSnapshot == InitSnapshot /\ [][NextSnapshot]_vars

----------------------------------------------------------------------------
(* Snapshots (SpecSnapshot) *)

\* C16: whatever state it is given and however its git commands end,
\* restore_repo_state returns a RestoreResult: it neither panics nor returns
\* an error.
C16_RestoreNeverAborts == sn_result.kind \in {"none", "ok"}

\* message.contains(token)
MessageContains(message, token) == \E i \in 1..Len(message) : message[i] = token

\* The restore ran checkout <sha>, which failed saying the sha is unknown.
UnknownShaAt(i) ==
    /\ sn_cmds[i].cmd = "checkout <sha>"
    /\ sn_cmds[i].status = "fail"
    /\ (StderrContains(sn_cmds[i].stderr, "did not match any") \/
        StderrContains(sn_cmds[i].stderr, "not a commit"))

\* C17: when checkout <sha> fails with "did not match any" or "not a commit"
\* on stderr, that checkout is the last git command of the restore, and the
\* result has success = false and a message containing "no longer exists".
C17_UnknownSha ==
    \A i \in 1..Len(sn_cmds) :
        UnknownShaAt(i) =>
            /\ i = Len(sn_cmds)
            /\ sn_result.kind = "ok"
            /\ ~sn_result.success
            /\ MessageContains(sn_result.message, "no longer exists")

\* C18: on a clean repository, without failures outside the repository, a
\* capture, the restore of that capture and a second capture give the same
\* sha, branch and dirty flag, on a branch and with a detached HEAD.
C18_RoundTrip ==
    (sn_trip.stage = "recaptured" /\ ~sn_trip.first.dirty /\ ~sn_faults) =>
        /\ sn_result.kind = "ok" /\ sn_result.success
        /\ sn_trip.second = sn_trip.first

\* A round trip on "main": the restore ran checkout <sha> and checkout -B, and
\* the second capture is on "main" again.
C18_Witness ==
    /\ sn_trip.stage = "recaptured"
    /\ ~sn_faults
    /\ ~sn_trip.first.dirty
    /\ sn_trip.first.branch = SnBranch("main")
    /\ Len(sn_cmds) = 2
    /\ sn_trip.second.branch = SnBranch("main")

\* A round trip with a detached HEAD: checkout <sha> alone.
C18_WitnessDetached ==
    /\ sn_trip.stage = "recaptured"
    /\ ~sn_faults
    /\ ~sn_trip.first.dirty
    /\ ~sn_trip.first.branch.some
    /\ Len(sn_cmds) = 1
    /\ sn_trip.second = sn_trip.first

----------------------------------------------------------------------------
(* normalize_git_url (src/src/ssh_multiplexing.rs). A URL is a sequence of   *)
(* pieces, each standing for the characters it names; no piece but ".git"    *)
(* contains a dot, and none but "/" and "ssh://" a slash.                    *)

MaxUrlLen == 4
MaxApplications == 2

UrlPieces == {"ssh://", "git", "@", "h", ":", "2", "/", ".git", " "}

RECURSIVE UrlsUpTo(_)
UrlsUpTo(n) ==
    IF n = 0 THEN {<<>>}
    ELSE LET shorter == UrlsUpTo(n - 1)
         IN  shorter \cup {Append(u, x) : u \in {v \in shorter : Len(v) = n - 1},
                                          x \in UrlPieces}

Last(s) == s[Len(s)]
DropLast(s) == SubSeq(s, 1, Len(s) - 1)
EndsWith(s, piece) == Len(s) > 0 /\ Last(s) = piece
StartsWith(s, piece) == Len(s) > 0 /\ s[1] = piece

\* str::trim: the white space at both ends removed
RECURSIVE Trim(_)
Trim(s) ==
    IF StartsWith(s, " ") THEN Trim(Tail(s))
    ELSE IF EndsWith(s, " ") THEN Trim(DropLast(s))
    ELSE s

\* if s.ends_with(".git") { s.truncate(s.len() - 4) }
StripDotGit(s) == IF EndsWith(s, ".git") THEN DropLast(s) ELSE s

\* while s.ends_with('/') { s.pop() }
RECURSIVE StripSlashes(_)
StripSlashes(s) == IF EndsWith(s, "/") THEN StripSlashes(DropLast(s)) ELSE s

\* str::find and str::rfind of one character: its first or last position, 0 for None
Find(s, piece) ==
    IF \E i \in 1..Len(s) : s[i] = piece
    THEN CHOOSE i \in 1..Len(s) : s[i] = piece /\ \A j \in 1..(i - 1) : s[j] # piece
    ELSE 0
RFind(s, piece) ==
    IF \E i \in 1..Len(s) : s[i] = piece
    THEN CHOOSE i \in 1..Len(s) : s[i] = piece /\ \A j \in (i + 1)..Len(s) : s[j] # piece
    ELSE 0

\* host_part with an optional port stripped
HostNoPort(host_part) ==
    LET colon_pos == RFind(host_part, ":")
    IN  IF colon_pos # 0 /\ \A i \in (colon_pos + 1)..Len(host_part) : host_part[i] = "2"
        THEN SubSeq(host_part, 1, colon_pos - 1)
        ELSE host_part

\* host_no_port with a user, "git@" by default
WithUser(host_no_port) ==
    IF Find(host_no_port, "@") # 0 THEN host_no_port ELSE <<"git", "@">> \o host_no_port

\* normalize_git_url(url)
NormalizeGitUrl(url) ==
    LET s == StripSlashes(StripDotGit(Trim(url)))
    IN  IF StartsWith(s, "ssh://")
        THEN LET rest == Tail(s)
                 slash_pos == Find(rest, "/")
             IN  IF slash_pos # 0
                 THEN WithUser(HostNoPort(SubSeq(rest, 1, slash_pos - 1))) \o <<":">> \o
                      SubSeq(rest, slash_pos + 1, Len(rest))
                 ELSE s
        ELSE s

\* urls_match(a, b)
UrlsMatch(a, b) == NormalizeGitUrl(a) = NormalizeGitUrl(b)

\* normalize_git_url applied to the result of the application before; the
\* results are kept in order.
Normalize ==
    /\ Len(url_out) < MaxApplications
    /\ url_out' = Append(url_out,
                    NormalizeGitUrl(IF url_out = <<>> THEN url_in ELSE Last(url_out)))
    /\ UNCHANGED <<url_in, noturl>>

InitUrl ==
    /\ InitIdleQueue
    /\ InitRm
    /\ InitLibIdle("url")
    /\ url_in \in UrlsUpTo(MaxUrlLen)
    /\ url_out = <<>>

NextUrl == Normalize

SpecUrl == InitUrl /\ [][NextUrl]_vars

\* C19: normalising a normalised URL changes nothing.
C19_Idempotent ==
    \A i \in 2..Len(url_out) : url_out[i] = url_out[i - 1]

----------------------------------------------------------------------------
(* fire_worktree_hook (src/src/worktree/hooks.rs) *)

\* What the manifest holds at worktree.hooks.<name>: nothing, a value that is
\* not a string, or a command string.
HookValues == {"absent", "not a string", "string"}

HookEnvs ==
    [meta_dir : BOOLEAN, manifest : BOOLEAN, hooks : [HookNames -> HookValues],
     payload : {"ok", "err"}, spawn : {"ok", "err"}, write : {"ok", "err"},
     exit : {"zero", "nonzero", "err"}]

\* A lookup that takes the command of any hook.
HookCmdAny(env, hook_name) == \E n \in HookNames : env.hooks[n] = "string"

\* config.get("worktree").and_then(hooks).and_then(hook_name).and_then(as_str) is Some
HookCmd(env, hook_name) == env.hooks[hook_name] = "string"

\* What the call does to the child process, in order.
HookTrace(env, hook_name) ==
    IF ~env.meta_dir THEN <<>>
    ELSE IF ~env.manifest THEN <<>>
    ELSE IF ~HookCmd(env, hook_name) THEN <<>>
    ELSE IF env.payload = "err" THEN <<>>
    ELSE IF env.spawn = "err" THEN <<"spawn failed", "warn">>
    ELSE <<"spawn", IF env.write = "ok" THEN "write payload" ELSE "write payload failed",
           "close stdin", "wait">> \o
         (IF env.exit = "zero" THEN <<>> ELSE <<"warn">>)

HookCall(kind, hook_name) == [kind |-> kind, hook_name |-> hook_name]

\* fire_worktree_hook(hook_name, payload, meta_dir)
FireWorktreeHook ==
    /\ \E hook_name \in HookNames :
        /\ hk_trace' = HookTrace(hk_env, hook_name)
        /\ hk_result' = HookCall("returned", hook_name)
    /\ UNCHANGED <<hk_env, nothook>>

InitHook ==
    /\ InitIdleQueue
    /\ InitRm
    /\ InitLibIdle("hook")
    /\ hk_env \in HookEnvs
    /\ hk_trace = <<>>
    /\ hk_result = NoHookCall

NextHook == FireWorktreeHook

SpecHook == InitHook /\ [][NextHook]_vars

\* The position of a step in the trace of the last call, 0 when it did not happen.
HookStep(step) ==
    IF \E i \in 1..Len(hk_trace) : hk_trace[i] = step
    THEN CHOOSE i \in 1..Len(hk_trace) : hk_trace[i] = step
    ELSE 0

\* C20: every call returns, whatever the configuration and the fate of the
\* child; it tries to spawn a command only when the meta dir is given, the
\* manifest is read and worktree.hooks.<name> is a string; and when the child
\* was spawned the payload is written to its stdin, then stdin is closed, and
\* only then the call waits for it.
C20_HookNeverFatal ==
    /\ hk_result.kind \in {"none", "returned"}
    /\ hk_result.kind = "returned" =>
        /\ hk_trace # <<>> =>
            /\ hk_env.meta_dir
            /\ hk_env.manifest
            /\ hk_env.hooks[hk_result.hook_name] = "string"
            /\ hk_trace[1] \in {"spawn", "spawn failed"}
        /\ HookStep("spawn") # 0 =>
            /\ HookStep("spawn") = 1
            /\ hk_trace[2] \in {"write payload", "write payload failed"}
            /\ HookStep("close stdin") = 3
            /\ HookStep("wait") = 4
        /\ HookStep("spawn") = 0 => HookStep("wait") = 0 /\ HookStep("close stdin") = 0

\* The hook ran, was fed the payload and exited non-zero: the call warned and
\* returned; another hook's entry in the manifest is not a string.
C20_Witness ==
    /\ hk_result.kind = "returned"
    /\ hk_result.hook_name = "post-destroy"
    /\ hk_env.hooks["post-create"] = "not a string"
    /\ hk_env.exit = "nonzero"
    /\ hk_trace = <<"spawn", "write payload", "close stdin", "wait", "warn">>

----------------------------------------------------------------------------
(* ensure_worktrees_in_gitignore (src/src/worktree/helpers.rs) *)

MaxGitignoreLen == 3
MaxEnsureCalls == 2

\* The characters of a .gitignore: "w" stands for the worktrees dirname, "x"
\* for any other visible character.
GitignorePieces == {"w", "/", "\n", "x", " "}
WorktreesDirname == <<"w">>

\* The states of .gitignore before the first call.
GitignoreFiles ==
    {NoGitignore} \cup
    {[exists |-> TRUE, text |-> t] : t \in SeqsUpTo(GitignorePieces, MaxGitignoreLen)}

\* str::lines: the pieces between line feeds, without a final empty line
RECURSIVE Lines(_)
Lines(s) ==
    IF s = <<>> THEN <<>>
    ELSE LET i == Find(s, "\n")
         IN  IF i = 0 THEN <<s>>
             ELSE <<SubSeq(s, 1, i - 1)>> \o Lines(SubSeq(s, i + 1, Len(s)))

\* format!("{worktrees_dirname}/")
Pattern(worktrees_dirname) == Append(worktrees_dirname, "/")

\* content.lines().any(|line| line.trim() == pattern.trim_end_matches('/')
\*                         || line.trim() == pattern)
AlreadyPresent(content, pattern) ==
    \E i \in 1..Len(Lines(content)) :
        \/ Trim(Lines(content)[i]) = StripSlashes(pattern)
        \/ Trim(Lines(content)[i]) = pattern

\* The .gitignore a call leaves behind.
EnsureWorktreesInGitignore(file, worktrees_dirname) ==
    LET pattern == Pattern(worktrees_dirname)
    IN  IF file.exists
        THEN IF AlreadyPresent(file.text, pattern) THEN file
             ELSE [exists |-> TRUE, text |-> file.text \o pattern \o <<"\n">>]
        ELSE [exists |-> TRUE, text |-> pattern \o <<"\n">>]

EnsureGitignore ==
    /\ gi_calls < MaxEnsureCalls
    /\ gi_file' = EnsureWorktreesInGitignore(gi_file, WorktreesDirname)
    /\ gi_calls' = gi_calls + 1
    /\ gi_once' = IF gi_calls = 0 THEN gi_file' ELSE gi_once
    /\ UNCHANGED notgitignore

InitGitignore ==
    /\ InitIdleQueue
    /\ InitRm
    /\ InitLibIdle("gitignore")
    /\ gi_file \in GitignoreFiles
    /\ gi_calls = 0
    /\ gi_once = NoGitignore

NextGitignore == EnsureGitignore

SpecGitignore == InitGitignore /\ [][NextGitignore]_vars

\* The number of lines of the file that are the pattern.
PatternLines(file) ==
    Cardinality({i \in 1..Len(Lines(file.text)) :
                    Lines(file.text)[i] = Pattern(WorktreesDirname)})

\* C21: whatever .gitignore held before (absent, empty, ending in a line feed
\* or not, naming the directory or not), a second call leaves the file as the
\* first call left it, and the file never holds the line <name>/ twice unless
\* it did before the first call.
C21_GitignoreIdempotent ==
    /\ [](gi_calls >= 2 => gi_file = gi_once)
    /\ [][PatternLines(gi_file') > PatternLines(gi_file) => PatternLines(gi_file) = 0]_vars

----------------------------------------------------------------------------
(* parse_duration and format_duration (src/src/worktree/helpers.rs); the     *)
(* 64-bit integers of the code scaled to DurWidth bits, wide enough for a    *)
(* week of seconds                                                            *)

DurWidth == 21
MaxCount == 24

DurUMax == 2^DurWidth - 1
DurIMax == 2^(DurWidth - 1) - 1

DigitChars == <<"0", "1", "2", "3", "4", "5", "6", "7", "8", "9">>
IsAsciiDigit(c) == \E d \in 1..10 : DigitChars[d] = c
DigitValue(c) == (CHOOSE d \in 1..10 : DigitChars[d] = c) - 1

\* The decimal digits of n >= 0, as format!("{n}") writes them.
RECURSIVE ToDigits(_)
ToDigits(n) ==
    IF n < 10 THEN <<DigitChars[n + 1]>>
    ELSE Append(ToDigits(n \div 10), DigitChars[(n % 10) + 1])

DurOk(secs) == [kind |-> "ok", secs |-> secs]
DurErr == [kind |-> "err"]
DurPanic == [kind |-> "panic"]

\* str::parse::<u64>: an optional "+", then one or more digits, no overflow
RECURSIVE DigitsValue(_, _)
DigitsValue(ds, acc) ==
    IF ds = <<>> THEN DurOk(acc)
    ELSE IF acc * 10 + DigitValue(Head(ds)) > DurUMax THEN DurErr
    ELSE DigitsValue(Tail(ds), acc * 10 + DigitValue(Head(ds)))

ParseU64(str) ==
    LET ds == IF StartsWith(str, "+") THEN Tail(str) ELSE str
    IN  IF ds = <<>> \/ \E i \in 1..Len(ds) : ~IsAsciiDigit(ds[i]) THEN DurErr
        ELSE DigitsValue(ds, 0)

\* The multiplier of a suffix, 0 for a suffix the match rejects.
Multiplier(suffix) ==
    CASE suffix = "s" -> 1
      [] suffix = "m" -> 60
      [] suffix = "h" -> 3600
      [] suffix = "d" -> 86400
      [] suffix = "w" -> 604800
      [] OTHER -> 0

\* num * multiplier in DurWidth bits, computed without leaving the range
RECURSIVE WrappingMul(_, _)
WrappingMul(num, multiplier) ==
    IF multiplier = 0 THEN 0
    ELSE (2 * WrappingMul(num, multiplier \div 2) + (multiplier % 2) * num)
            % (2^DurWidth)

MulOverflows(num, multiplier) == multiplier > 0 /\ num > DurUMax \div multiplier

\* parse_duration(s); debug: overflow checks are compiled in
ParseDuration(str, debug) ==
    LET s == Trim(str)
    IN  IF s = <<>> THEN DurErr
        ELSE IF \A i \in 1..Len(s) : IsAsciiDigit(s[i]) THEN ParseU64(s)
        ELSE LET num == ParseU64(DropLast(s))
                 multiplier == Multiplier(Last(s))
             IN  IF num.kind # "ok" \/ multiplier = 0 THEN DurErr
                 ELSE IF MulOverflows(num.secs, multiplier) /\ debug THEN DurPanic
                 ELSE DurOk(WrappingMul(num.secs, multiplier))

\* `secs as i64`: the same bits read as a signed value
DurAsSigned(u) == IF u > DurIMax THEN u - 2^DurWidth ELSE u

\* format_duration(secs)
FormatDuration(secs) ==
    LET abs_secs == IF secs < 0 THEN -secs ELSE secs
        prefix == IF secs < 0 THEN <<"-">> ELSE <<>>
    IN  IF abs_secs >= 604800 /\ abs_secs % 604800 = 0
        THEN prefix \o ToDigits(abs_secs \div 604800) \o <<"w">>
        ELSE IF abs_secs >= 86400 /\ abs_secs % 86400 = 0
        THEN prefix \o ToDigits(abs_secs \div 86400) \o <<"d">>
        ELSE IF abs_secs >= 3600 /\ abs_secs % 3600 = 0
        THEN prefix \o ToDigits(abs_secs \div 3600) \o <<"h">>
        ELSE IF abs_secs >= 60 /\ abs_secs % 60 = 0
        THEN prefix \o ToDigits(abs_secs \div 60) \o <<"m">>
        ELSE prefix \o ToDigits(abs_secs) \o <<"s">>

Suffixes == {"s", "m", "h", "d", "w"}

\* The counts tried: the small ones, whole minutes, and the ones around the
\* largest count each suffix can carry as a signed and as an unsigned value.
Counts ==
    (1..MaxCount) \cup {60, 120} \cup
    {c \in {(DurIMax \div Multiplier(u)) + d : u \in Suffixes, d \in 0..1} \cup
           {(DurUMax \div Multiplier(u)) + d : u \in Suffixes, d \in 0..1} :
        c >= 1 /\ c <= DurUMax}

\* The seconds tried: around the small multiples of each unit, and the largest.
Seconds ==
    {n \in {k * Multiplier(u) + d : k \in 0..MaxCount, u \in Suffixes, d \in 0..1} :
        n <= DurIMax} \cup {DurIMax}

DurationInputs ==
    {[kind |-> "string", count |-> k, text |-> Append(ToDigits(k), u), debug |-> b] :
        k \in Counts, u \in Suffixes, b \in BOOLEAN} \cup
    {[kind |-> "secs", secs |-> n] : n \in Seconds}

\* format_duration(parse_duration(input) as i64)
ParseThenFormat ==
    /\ du_in.kind = "string"
    /\ du_out = NoDuration
    /\ LET secs == ParseDuration(du_in.text, du_in.debug)
       IN  du_out' = IF secs.kind = "ok"
                     THEN [kind |-> "ok", secs |-> secs.secs,
                           text |-> FormatDuration(DurAsSigned(secs.secs))]
                     ELSE secs
    /\ UNCHANGED <<du_in, notduration>>

\* parse_duration(format_duration(n)), in either build
FormatThenParse ==
    /\ du_in.kind = "secs"
    /\ du_out = NoDuration
    /\ \E debug \in BOOLEAN :
        LET text == FormatDuration(du_in.secs)
            secs == ParseDuration(text, debug)
        IN  du_out' = IF secs.kind = "ok"
                      THEN [kind |-> "ok", secs |-> secs.secs, text |-> text]
                      ELSE secs
    /\ UNCHANGED <<du_in, notduration>>

InitDuration ==
    /\ InitIdleQueue
    /\ InitRm
    /\ InitLibIdle("duration")
    /\ du_in \in DurationInputs
    /\ du_out = NoDuration

NextDuration == ParseThenFormat \/ FormatThenParse

SpecDuration == InitDuration /\ [][NextDuration]_vars

\* <k><unit> names an exact multiple of a larger unit.
ExactInLargerUnit(k, unit) ==
    \/ unit \in {"s", "m"} /\ k % 60 = 0
    \/ unit = "h" /\ k % 24 = 0
    \/ unit = "d" /\ k % 7 = 0

\* C22: an input <k><unit> with k >= 1 that is not an exact multiple of a
\* larger unit is parsed and formatted back to itself, and every n >= 0 is
\* formatted and parsed back to n.
C22_DurationRoundTrip ==
    du_out # NoDuration =>
        /\ (du_in.kind = "string" /\ ~ExactInLargerUnit(du_in.count, Last(du_in.text))) =>
                (du_out.kind = "ok" /\ du_out.text = du_in.text)
        /\ du_in.kind = "secs" => (du_out.kind = "ok" /\ du_out.secs = du_in.secs)

----------------------------------------------------------------------------
(* Worktree store: add, then remove (SpecStore) *)

\* The step is a successful store_remove(P) and the call before it was a
\* successful store_add(P, e); directories may have come and gone in between.
IsRemoveAfterAdd ==
    /\ st_calls' = st_calls + 1
    /\ st_last.op = "store_add" /\ st_last.ok
    /\ st_last'.op = "store_remove" /\ st_last'.ok
    /\ st_last'.path = st_last.path

\* C23: store_add(P, e) followed by store_remove(P) derives the same key both
\* times and leaves the store without the entry written for P, whatever exists
\* on disk at remove time, the worktree directory deleted in between included.
C23_AddThenRemove ==
    [][IsRemoveAfterAdd =>
            /\ st_last'.key = st_last.key
            /\ st_last.key \notin DOMAIN ReadStore(st_file')]_vars

----------------------------------------------------------------------------
(* CloneQueue called by several threads at once: each lock-protected section *)
(* and each file system test of a call is one step                           *)

\* A push that never finds the path in pending.
NeverInPending(pend, path) == FALSE

\* pending.iter().any(|t| t.target_path == path)
InPending(pend, path) == \E i \in 1..Len(pend) : pend[i].target_path = path

\* One activation of push_from_meta: its arguments, the parsed projects and
\* the index of the loop.
Frame(base_dir, depth_level, projects, i) ==
    [base_dir |-> base_dir, depth_level |-> depth_level, projects |-> projects, i |-> i]

\* The start of push_from_meta(base_dir, depth_level): the depth gate, the
\* search for a manifest and its parsing; a closed gate or no manifest returns.
Enter(stack, base_dir, depth_level) ==
    IF DepthGateClosed(depth_level) \/ ~FindMetaConfigIn(base_dir) THEN stack
    ELSE Append(stack, Frame(base_dir, depth_level, ParseMetaConfig(base_dir), 1))

\* Where a caller stands once a step is over: in the loop of the innermost
\* push_from_meta, or out of its call.
Resume(stack) == IF stack = <<>> THEN "idle" ELSE "loop"

\* A caller that is in no call begins one.
Begins(c) ==
    /\ cq_pc[c] = "idle"
    /\ cq_calls < MaxCallerCalls
    /\ cq_calls' = cq_calls + 1

\* The frame of the steps inside a call.
incall == <<cq_calls, notcallers>>

\* push(task) called directly.
CPush(c, task) ==
    /\ Begins(c)
    /\ cq_task' = [cq_task EXCEPT ![c] = task]
    /\ cq_pc' = [cq_pc EXCEPT ![c] = "push"]
    /\ UNCHANGED <<corevars, cq_stack, notcallers>>

\* push_from_meta(base_dir, depth_level) called directly.
CPushFromMeta(c, base_dir, depth_level) ==
    /\ Begins(c)
    /\ LET stack == Enter(<<>>, base_dir, depth_level)
       IN  /\ cq_stack' = [cq_stack EXCEPT ![c] = stack]
           /\ cq_pc' = [cq_pc EXCEPT ![c] = Resume(stack)]
    /\ UNCHANGED <<corevars, cq_task, notcallers>>

\* One iteration of `for project in projects`, up to the call of push or of
\* push_from_meta; past the last project the activation returns.
CLoop(c) ==
    /\ cq_pc[c] = "loop"
    /\ LET f == Last(cq_stack[c])
           rest == DropLast(cq_stack[c])
       IN  IF f.i > Len(f.projects)
           THEN /\ cq_stack' = [cq_stack EXCEPT ![c] = rest]
                /\ cq_pc' = [cq_pc EXCEPT ![c] = Resume(rest)]
                /\ UNCHANGED cq_task
           ELSE LET project == f.projects[f.i]
                    target_path == Join(f.base_dir, project.path)
                    next == Append(rest, [f EXCEPT !.i = @ + 1])
                IN  IF Exists(target_path)
                    THEN /\ cq_stack' = [cq_stack EXCEPT ![c] =
                                IF HasNestedConfig(target_path)
                                THEN Enter(next, target_path, f.depth_level + 1)
                                ELSE next]
                         /\ UNCHANGED <<cq_pc, cq_task>>
                    ELSE IF ~project.repo
                    THEN /\ cq_stack' = [cq_stack EXCEPT ![c] = next]
                         /\ UNCHANGED <<cq_pc, cq_task>>
                    ELSE /\ cq_stack' = [cq_stack EXCEPT ![c] = next]
                         /\ cq_task' = [cq_task EXCEPT ![c] =
                                Task(target_path, f.depth_level, project.meta)]
                         /\ cq_pc' = [cq_pc EXCEPT ![c] = "push"]
    /\ UNCHANGED <<corevars, incall>>

\* push, first block: completed is locked, searched and unlocked.
CPushCheckCompleted(c) ==
    /\ cq_pc[c] = "push"
    /\ IF cq_task[c].target_path \in completed
       THEN /\ cq_pc' = [cq_pc EXCEPT ![c] = Resume(cq_stack[c])]
            /\ cq_task' = [cq_task EXCEPT ![c] = NoTask]
       ELSE /\ cq_pc' = [cq_pc EXCEPT ![c] = "pending"]
            /\ UNCHANGED cq_task
    /\ UNCHANGED <<corevars, cq_stack, incall>>

\* push, second block: pending is locked, scanned and, when the path is not
\* there, extended; total_discovered is incremented under the same lock.
CPushPending(c) ==
    /\ cq_pc[c] = "pending"
    /\ IF InPending(pending, cq_task[c].target_path)
       THEN UNCHANGED <<pending, total_discovered>>
       ELSE /\ total_discovered < MaxDiscovered
            /\ pending' = Append(pending, cq_task[c])
            /\ total_discovered' = total_discovered + 1
    /\ cq_pc' = [cq_pc EXCEPT ![c] = Resume(cq_stack[c])]
    /\ cq_task' = [cq_task EXCEPT ![c] = NoTask]
    /\ UNCHANGED <<completed, failed, total_completed, meta_depth, envvars, schedvars,
                   apivars, last, rmvars, cq_stack, incall>>

\* take_one()
CTakeOne(c) ==
    /\ Begins(c)
    /\ LET r == TakeOne(Q)
       IN  /\ SetQueue(r.q)
           /\ held' = IF r.some THEN held \cup {r.task} ELSE held
    /\ UNCHANGED <<envvars, schedvars, pushed_fresh, last, rmvars, cq_pc, cq_stack, cq_task, notcallers>>

\* drain_all()
CDrainAll(c) ==
    /\ Begins(c)
    /\ SetQueue(DrainAll(Q).q)
    /\ UNCHANGED <<envvars, schedvars, apivars, last, rmvars, cq_pc, cq_stack, cq_task, notcallers>>

\* A caller clones a task taken from the queue.
CClone(c, task) ==
    /\ cq_pc[c] = "idle"
    /\ task \in held
    /\ ~Exists(task.target_path)
    /\ CloneRepo(task.target_path, TRUE)
    /\ UNCHANGED <<qvars, remote, preexisting, schedvars, apivars, last, rmvars, libvars>>

\* mark_completed(task), up to its call of push_from_meta.
CMarkCompleted(c, task) ==
    /\ Begins(c)
    /\ task \in held
    /\ total_completed' = total_completed + 1
    /\ completed' = completed \cup {task.target_path}
    /\ held' = held \ {task}
    /\ LET stack == Enter(<<>>, task.target_path, task.depth_level + 1)
       IN  /\ cq_stack' = [cq_stack EXCEPT ![c] = stack]
           /\ cq_pc' = [cq_pc EXCEPT ![c] = Resume(stack)]
    /\ UNCHANGED <<pending, failed, total_discovered, meta_depth, envvars, schedvars,
                   pushed_fresh, last, rmvars, cq_task, notcallers>>

\* mark_failed(task)
CMarkFailed(c, task) ==
    /\ Begins(c)
    /\ task \in held
    /\ SetQueue(MarkFailed(Q, task))
    /\ held' = held \ {task}
    /\ UNCHANGED <<envvars, schedvars, pushed_fresh, last, rmvars, cq_pc, cq_stack, cq_task, notcallers>>

NextQueueConcurrent ==
    \/ \E c \in Callers, task \in ApiTasks : CPush(c, task)
    \/ \E c \in Callers, base_dir \in Dirs : CPushFromMeta(c, base_dir, 0)
    \/ \E c \in Callers : CLoop(c)
    \/ \E c \in Callers : CPushCheckCompleted(c)
    \/ \E c \in Callers : CPushPending(c)
    \/ \E c \in Callers : CTakeOne(c)
    \/ \E c \in Callers : CDrainAll(c)
    \/ \E c \in Callers, task \in held : CClone(c, task)
    \/ \E c \in Callers, task \in held : CMarkCompleted(c, task)
    \/ \E c \in Callers, task \in held : CMarkFailed(c, task)

SpecQueueConcurrent == InitQueueApi /\ [][NextQueueConcurrent]_vars

\* C24: in every state reached by callers running push, push_from_meta,
\* take_one, drain_all, mark_completed and mark_failed at the same time, no
\* two tasks of pending have the same target_path.
C24_NoDuplicatePending ==
    \A i, j \in 1..Len(pending) :
        pending[i].target_path = pending[j].target_path => i = j

\* A caller found its path absent from completed and is about to lock pending,
\* where another caller has put a task for the same path in the meantime, while
\* a third path waits behind it.
C24_Witness ==
    \E c \in Callers :
        /\ cq_pc[c] = "pending"
        /\ InPending(pending, cq_task[c].target_path)
        /\ Len(pending) = 2
        /\ \E d \in Callers \ {c} : cq_pc[d] = "loop"

----------------------------------------------------------------------------
(* git_worktree_add with from_ref (SpecWorktreeAdd) *)

\* The step is a call with from_ref given.
IsAddFromRef == wa_calls' = wa_calls + 1 /\ wa_last'.from_ref # ""

\* The call stopped at the verification: an error naming the ref, no
\* git worktree add, no branch and no worktree created.
RefusedUnknownRef ==
    /\ ~wa_last'.ok
    /\ wa_last'.err = [kind |-> "ref not found", ref |-> wa_last'.from_ref]
    /\ wa_last'.cmd = <<"rev-parse <ref>">>
    /\ UNCHANGED <<wa_heads, wa_checked>>

\* The one command issued after the verification is worktree add -b from the ref.
BranchedFromRef ==
    wa_last'.cmd = <<"rev-parse <ref>", "worktree add -b <branch> <dest> <ref>">>

\* The call created the branch and reports it.
CreatedFromRef ==
    /\ wa_last'.ok /\ wa_last'.created_branch
    /\ wa_last'.branch \notin wa_heads
    /\ wa_last'.branch \in wa_heads'

----------------------------------------------------------------------------
(* restore_repo_state: the stash and the reattach (SpecSnapshot) *)

\* The step is a restore that changed what is known of the last restore.
IsRestore ==
    /\ sn_result'.kind # "none"
    /\ <<sn_repo, sn_cmds, sn_result, sn_state>>' # <<sn_repo, sn_cmds, sn_result, sn_state>>

\* The last restore ran stash push, and it ended this way.
StashEnded(status) ==
    /\ sn_cmds # <<>>
    /\ sn_cmds[1].cmd = "stash push"
    /\ sn_cmds[1].status = status

\* C26: a restore that finds the working tree dirty runs stash push before
\* any checkout (and a restore runs it only on a dirty tree); a failed stash
\* gives success = false, stashed = false, the stderr in the message and no
\* checkout at all; and a result has stashed = true exactly when stash push
\* ran and succeeded, whatever the checkout after it did.
C26_StashFirst ==
    /\ [](/\ \A i \in 1..Len(sn_cmds) : sn_cmds[i].cmd = "stash push" => i = 1
          /\ StashEnded("fail") =>
                /\ sn_result.kind = "ok"
                /\ ~sn_result.success /\ ~sn_result.stashed
                /\ MessageContains(sn_result.message, sn_cmds[1].stderr)
                /\ Len(sn_cmds) = 1
          /\ sn_result.kind = "ok" => (sn_result.stashed <=> StashEnded("ok")))
    /\ [][IsRestore =>
            /\ (sn_repo.dirty /\ ~sn_faults) => sn_cmds'[1].cmd = "stash push"
            /\ (sn_cmds' # <<>> /\ sn_cmds'[1].cmd = "stash push") => sn_repo.dirty]_vars

\* The tree was dirty, the stash succeeded and the checkout of the sha then
\* failed: the result reports the failure and the stash.
C26_Witness ==
    /\ sn_result.kind = "ok"
    /\ ~sn_result.success
    /\ sn_result.stashed
    /\ Len(sn_cmds) = 2
    /\ sn_cmds[2].cmd = "checkout <sha>" /\ sn_cmds[2].status = "fail"
    /\ sn_repo.stashes = 1

\* C27: checkout -B <branch> <sha> is issued only right after a checkout <sha>
\* that succeeded and only for a state with a branch; when it fails the result
\* is still success = true, with a message saying the branch could not be
\* restored.
C27_ReattachNonFatal ==
    \A i \in 1..Len(sn_cmds) :
        sn_cmds[i].cmd = "checkout -B <branch> <sha>" =>
            /\ i > 1
            /\ sn_cmds[i - 1].cmd = "checkout <sha>" /\ sn_cmds[i - 1].status = "ok"
            /\ sn_state.branch.some
            /\ sn_cmds[i].status = "fail" =>
                /\ sn_result.kind = "ok"
                /\ sn_result.success
                /\ MessageContains(sn_result.message, "couldn't restore branch")

----------------------------------------------------------------------------
(* take_one, drain_all and the counts of push_from_meta (SpecQueue) *)

\* C28: take_one returns none exactly when pending is empty; otherwise it
\* removes and returns the last task of pending, the most recently admitted of
\* those still waiting; it changes neither completed, failed, total_discovered
\* nor total_completed.
C28_TakeOneLifo ==
    [][last'.op = "take_one" =>
        /\ last'.ok <=> pending # <<>>
        /\ pending # <<>> =>
            /\ last'.task = pending[Len(pending)]
            /\ pending' = SubSeq(pending, 1, Len(pending) - 1)
        /\ pending = <<>> => pending' = pending
        /\ UNCHANGED <<completed, failed, total_discovered, total_completed>>]_vars

\* take_one returned a task while an older one stays in pending.
C28_Witness ==
    /\ last.op = "take_one"
    /\ last.ok
    /\ pending # <<>>
    /\ last.task.target_path \notin PendingPaths(pending)

\* C29: drain_all returns the tasks of pending in the order they were admitted
\* and leaves pending empty, clones nothing and changes neither completed,
\* failed, total_discovered nor total_completed; a take_one right after it
\* returns none.
C29_DrainAll ==
    [][/\ last'.op = "drain_all" =>
            /\ last'.tasks = pending
            /\ pending' = <<>>
            /\ UNCHANGED <<completed, failed, total_discovered, total_completed, disk>>
       /\ (last.op = "drain_all" /\ last'.op = "take_one") => ~last'.ok]_vars

\* drain_all returned two tasks and the queue is empty.
C29_Witness ==
    /\ last.op = "drain_all"
    /\ Len(last.tasks) = 2
    /\ pending = <<>>
    /\ total_discovered = 2

C30_WitnessRecursion ==
    /\ last.op = "push_from_meta"
    /\ last.base = Root
    /\ last.n >= 1
    /\ Exists(DirA)
    /\ DirAB \in PendingPaths(pending)

----------------------------------------------------------------------------
(* store_remove_batch under concurrent callers: the store holds entries and *)
(* every call is a batch removal, as when prune runs in several processes   *)

MaxBatchCalls == 3

\* The keys the batches list: two canonical paths and a literal one.
BatchKeys == {WtReal, Wt2, WtLink}

\* The store after store_add wrote an entry under each key.
FullStore == [k \in BatchKeys |-> Entry(IF k = WtReal THEN "e1" ELSE "e2", <<>>)]

BatchCalls ==
    {StoreCall("store_remove_batch", "", "", keys, NoEntry, <<>>, TRUE) :
        keys \in SUBSET BatchKeys}

\* A process enters store_remove_batch(keys): it returns Ok at once when the
\* store file is missing, else it goes on to update.
PBeginBatch(p) ==
    /\ sp_pc[p] = "idle"
    /\ st_calls < MaxBatchCalls
    /\ st_calls' = st_calls + 1
    /\ \E call \in BatchCalls :
        IF ~st_file.exists
        THEN /\ st_serial' = RunCall(call, st_serial)
             /\ UNCHANGED <<sp_pc, sp_call>>
        ELSE /\ sp_call' = [sp_call EXCEPT ![p] = call]
             /\ sp_pc' = [sp_pc EXCEPT ![p] = "lock"]
             /\ UNCHANGED st_serial
    /\ UNCHANGED <<st_file, st_lock, sp_snap, concframe>>

InitStoreBatch ==
    /\ InitIdleQueue
    /\ InitRm
    /\ InitLibIdle("store")
    /\ st_dirs = PhysDirs
    /\ st_file \in {MissingFile, WriteStore(FullStore)}
    /\ st_calls = 0
    /\ st_last = NoStoreCall
    /\ st_fallback = FALSE
    /\ st_lock = 0
    /\ sp_pc = [p \in StoreProcs |-> "idle"]
    /\ sp_call = [p \in StoreProcs |-> NoStoreCall]
    /\ sp_snap = [p \in StoreProcs |-> NoWorktrees]
    /\ st_serial = st_file

NextStoreBatch ==
    \E p \in StoreProcs :
        PBeginBatch(p) \/ PLock(p) \/ PRead(p) \/ PWrite(p) \/ PUnlock(p)

SpecStoreBatch == InitStoreBatch /\ [][NextStoreBatch]_vars

\* Process p's step is the write that ends its update.
Writes(p) == sp_pc[p] = "write" /\ sp_pc'[p] = "unlock"

\* The map m without the keys, every other entry as it was.
Without(m, before, keys) ==
    /\ DOMAIN m = DOMAIN before \ keys
    /\ \A k \in DOMAIN m : m[k] = before[k]

\* C31: store_remove_batch(keys) removes exactly the listed keys in one locked
\* update and leaves every other entry unchanged; a listed key that has no
\* entry is skipped, so concurrent batches with overlapping key sets all take
\* effect and none of the keys of a batch that returned is left in the store.
\* (The file changes only in the write of the process that holds the lock; a
\* write that goes through leaves the file without the listed keys and with
\* every other entry as it was; a failed write leaves the file as it was; no
\* entry ever comes back.)
C31_RemoveBatch ==
    /\ [](\A p \in StoreProcs :
            (sp_pc[p] = "unlock" /\ sp_call[p].ok) =>
                sp_call[p].keys \cap DOMAIN ReadStore(st_file) = {})
    /\ [][/\ st_file' # st_file => \E p \in StoreProcs : Writes(p) /\ st_lock = p
          /\ \A p \in StoreProcs :
                Writes(p) =>
                    IF sp_call'[p].ok
                    THEN /\ st_file'.exists
                         /\ Without(ReadStore(st_file'), ReadStore(st_file), sp_call[p].keys)
                    ELSE st_file' = st_file
          /\ DOMAIN ReadStore(st_file') \subseteq DOMAIN ReadStore(st_file)]_vars

\* Two batches with a key in common ran at the same time on the full store:
\* the first removed its keys, the second, which waited for the lock, found
\* the common key already gone, removed the rest and returned Ok.
C31_Witness ==
    /\ st_calls = 2
    /\ sp_pc[1] = "idle"
    /\ sp_pc[2] = "unlock" /\ sp_call[2].ok
    /\ sp_call[2].keys = {Wt2, WtLink}
    /\ DOMAIN sp_snap[2] = {WtLink}
    /\ DOMAIN ReadStore(st_file) = {}
    /\ st_file.exists

----------------------------------------------------------------------------
(* Worktree store: the calls made while the store file is missing (SpecStore) *)

\* The step is a store call made while the store file is missing.
CallOnMissingFile == st_calls' = st_calls + 1 /\ ~st_file.exists

\* What the read-only and the removing calls do while the file is missing, and
\* what store_extend_repos does to a key that has no entry.
MissingFileCalls ==
    /\ (CallOnMissingFile /\ st_last'.op = "store_list") =>
            /\ st_last'.ok
            /\ st_last'.listed = NoWorktrees
            /\ st_file' = st_file
    /\ (CallOnMissingFile /\ st_last'.op \in {"store_remove", "store_remove_batch"}) =>
            /\ st_last'.ok
            /\ st_file' = st_file
    /\ (st_calls' = st_calls + 1 /\ st_last'.op = "store_extend_repos"
            /\ st_last'.key \notin DOMAIN ReadStore(st_file)) =>
            ReadStore(st_file') = ReadStore(st_file)

\* C32: the registry file is created only by a write that adds data: while the
\* store file is missing, store_list returns an empty store, store_remove and
\* store_remove_batch succeed without creating the file, and
\* store_extend_repos on a key that has no entry changes no entry.
C32_LazyCreation ==
    [][/\ (~st_file.exists /\ st_file'.exists) =>
            /\ st_last'.op = "store_add"
            /\ ReadStore(st_file') # NoWorktrees
       /\ MissingFileCalls]_vars

\* C32, amended: the registry file is created only by a call that runs update
\* to its end: a successful store_add creates it with the added entry and a
\* successful store_extend_repos creates it holding no entry; while the store
\* file is missing, store_list returns an empty store, store_remove and
\* store_remove_batch succeed without creating the file, and
\* store_extend_repos on a key that has no entry changes no entry.
C32_LazyCreationAmended ==
    [][/\ (~st_file.exists /\ st_file'.exists) =>
            /\ st_calls' = st_calls + 1
            /\ st_last'.ok
            /\ \/ /\ st_last'.op = "store_add"
                  /\ DOMAIN ReadStore(st_file') = {st_last'.key}
               \/ /\ st_last'.op = "store_extend_repos"
                  /\ ReadStore(st_file') = NoWorktrees
       /\ (CallOnMissingFile /\ st_last'.ok
            /\ st_last'.op \in {"store_add", "store_extend_repos"}) => st_file'.exists
       /\ MissingFileCalls]_vars

\* The first call was store_extend_repos on the missing file: the file now
\* exists and holds no entry.
C32_Witness ==
    /\ st_calls = 1
    /\ st_last.op = "store_extend_repos" /\ st_last.ok
    /\ st_file.exists
    /\ ReadStore(st_file) = NoWorktrees

\* store_list, store_remove and store_remove_batch were called on the missing
\* file, which is still missing.
C32_WitnessNoFile ==
    /\ st_calls = MaxStoreCalls
    /\ st_last.op = "store_list" /\ st_last.listed = NoWorktrees
    /\ ~st_file.exists

----------------------------------------------------------------------------
(* CloneQueue called by several threads at once, with its mutexes: taking a *)
(* mutex is one step and may have to wait, the section it protects together *)
(* with the drop of the guard is the next                                   *)

\* A guard that is never dropped.
KeepLocked(mutex, m) == mutex

\* The MutexGuard goes out of scope: the mutex is free again.
Release(mutex, m) == [mutex EXCEPT ![m] = 0]

\* The mutex a caller at this position is about to lock, "none" elsewhere.
WaitsFor(pc) ==
    CASE pc \in {"push", "mark_completed"} -> "completed"
      [] pc \in {"pending", "take_one", "is_finished", "drain_all"} -> "pending"
      [] pc = "mark_failed" -> "failed"
      [] OTHER -> "none"

\* The position of a caller once it has the mutex it waited for.
Locked(pc) ==
    CASE pc = "push" -> "push_completed"
      [] pc = "pending" -> "push_pending"
      [] OTHER -> pc \o "_locked"

HeldBy(c) == {m \in Mutexes : cq_mutex[m] = c}

\* take_one(), is_finished(active_workers) or drain_all() is called: its first
\* statement locks pending.
LCall(c, op) ==
    /\ Begins(c)
    /\ cq_pc' = [cq_pc EXCEPT ![c] = op]
    /\ UNCHANGED <<corevars, cq_stack, cq_task, notcallers>>

\* mark_completed(task): total_completed.fetch_add(1), then completed is to be locked.
LMarkCompleted(c, task) ==
    /\ Begins(c)
    /\ task \in held
    /\ total_completed' = total_completed + 1
    /\ held' = held \ {task}
    /\ cq_task' = [cq_task EXCEPT ![c] = task]
    /\ cq_pc' = [cq_pc EXCEPT ![c] = "mark_completed"]
    /\ UNCHANGED <<pending, completed, failed, total_discovered, meta_depth, envvars,
                   schedvars, pushed_fresh, last, rmvars, cq_stack, notcallers>>

\* mark_failed(task): total_completed.fetch_add(1), then failed is to be locked.
LMarkFailed(c, task) ==
    /\ Begins(c)
    /\ task \in held
    /\ total_completed' = total_completed + 1
    /\ held' = held \ {task}
    /\ cq_task' = [cq_task EXCEPT ![c] = task]
    /\ cq_pc' = [cq_pc EXCEPT ![c] = "mark_failed"]
    /\ UNCHANGED <<pending, completed, failed, total_discovered, meta_depth, envvars,
                   schedvars, pushed_fresh, last, rmvars, cq_stack, notcallers>>

\* self.<mutex>.lock(): the caller waits until the mutex is free and takes it.
LAcquire(c) ==
    /\ WaitsFor(cq_pc[c]) # "none"
    /\ cq_mutex[WaitsFor(cq_pc[c])] = 0
    /\ cq_mutex' = [cq_mutex EXCEPT ![WaitsFor(cq_pc[c])] = c]
    /\ cq_pc' = [cq_pc EXCEPT ![c] = Locked(cq_pc[c])]
    /\ UNCHANGED <<corevars, cq_stack, cq_task, cq_calls, notlocks>>

\* push, first block, with completed locked: the search, then the guard is dropped.
LPushCompleted(c) ==
    /\ cq_pc[c] = "push_completed"
    /\ IF cq_task[c].target_path \in completed
       THEN /\ cq_pc' = [cq_pc EXCEPT ![c] = Resume(cq_stack[c])]
            /\ cq_task' = [cq_task EXCEPT ![c] = NoTask]
       ELSE /\ cq_pc' = [cq_pc EXCEPT ![c] = "pending"]
            /\ UNCHANGED cq_task
    /\ cq_mutex' = Release(cq_mutex, "completed")
    /\ UNCHANGED <<corevars, cq_stack, cq_calls, notlocks>>

\* push, second block, with pending locked: the scan, the append and
\* total_discovered.fetch_add(1), then the guard is dropped.
LPushPending(c) ==
    /\ cq_pc[c] = "push_pending"
    /\ IF InPending(pending, cq_task[c].target_path)
       THEN UNCHANGED <<pending, total_discovered>>
       ELSE /\ pending' = Append(pending, cq_task[c])
            /\ total_discovered' = total_discovered + 1
    /\ cq_pc' = [cq_pc EXCEPT ![c] = Resume(cq_stack[c])]
    /\ cq_task' = [cq_task EXCEPT ![c] = NoTask]
    /\ cq_mutex' = Release(cq_mutex, "pending")
    /\ UNCHANGED <<completed, failed, total_completed, meta_depth, envvars, schedvars,
                   apivars, last, rmvars, cq_stack, cq_calls, notlocks>>

\* take_one with pending locked: pending.pop(), the guard dropped at the return.
LTakeOneLocked(c) ==
    /\ cq_pc[c] = "take_one_locked"
    /\ LET r == TakeOne(Q)
       IN  /\ SetQueue(r.q)
           /\ held' = IF r.some THEN held \cup {r.task} ELSE held
    /\ cq_pc' = [cq_pc EXCEPT ![c] = "idle"]
    /\ cq_mutex' = Release(cq_mutex, "pending")
    /\ UNCHANGED <<envvars, schedvars, pushed_fresh, last, rmvars, cq_stack, cq_task,
                   cq_calls, notlocks>>

\* is_finished with pending locked: pending.is_empty() and the load of
\* active_workers, the guard dropped at the return.
LIsFinishedLocked(c) ==
    /\ cq_pc[c] = "is_finished_locked"
    /\ cq_pc' = [cq_pc EXCEPT ![c] = "idle"]
    /\ cq_mutex' = Release(cq_mutex, "pending")
    /\ UNCHANGED <<corevars, cq_stack, cq_task, cq_calls, notlocks>>

\* drain_all with pending locked: pending.drain(..), the guard dropped at the return.
LDrainAllLocked(c) ==
    /\ cq_pc[c] = "drain_all_locked"
    /\ SetQueue(DrainAll(Q).q)
    /\ cq_pc' = [cq_pc EXCEPT ![c] = "idle"]
    /\ cq_mutex' = Release(cq_mutex, "pending")
    /\ UNCHANGED <<envvars, schedvars, apivars, last, rmvars, cq_stack, cq_task,
                   cq_calls, notlocks>>

\* mark_completed with completed locked: the insert, then the guard is dropped.
LMarkCompletedLocked(c) ==
    /\ cq_pc[c] = "mark_completed_locked"
    /\ completed' = completed \cup {cq_task[c].target_path}
    /\ cq_pc' = [cq_pc EXCEPT ![c] = "discover"]
    /\ cq_mutex' = Release(cq_mutex, "completed")
    /\ UNCHANGED <<pending, failed, total_discovered, total_completed, meta_depth,
                   envvars, schedvars, apivars, last, rmvars, cq_stack, cq_task,
                   cq_calls, notlocks>>

\* mark_completed calls push_from_meta(&task.target_path, task.depth_level + 1):
\* the depth gate, the search for a manifest on disk and its parsing.
LDiscover(c) ==
    /\ cq_pc[c] = "discover"
    /\ LET stack == Enter(<<>>, cq_task[c].target_path, cq_task[c].depth_level + 1)
       IN  /\ cq_stack' = [cq_stack EXCEPT ![c] = stack]
           /\ cq_pc' = [cq_pc EXCEPT ![c] = Resume(stack)]
    /\ cq_task' = [cq_task EXCEPT ![c] = NoTask]
    /\ UNCHANGED <<corevars, incall>>

\* mark_failed with failed locked: the insert, the guard dropped at the return.
LMarkFailedLocked(c) ==
    /\ cq_pc[c] = "mark_failed_locked"
    /\ failed' = failed \cup {cq_task[c].target_path}
    /\ cq_pc' = [cq_pc EXCEPT ![c] = "idle"]
    /\ cq_task' = [cq_task EXCEPT ![c] = NoTask]
    /\ cq_mutex' = Release(cq_mutex, "failed")
    /\ UNCHANGED <<pending, completed, total_discovered, total_completed, meta_depth,
                   envvars, schedvars, apivars, last, rmvars, cq_stack, cq_calls, notlocks>>

\* The steps a caller takes inside a call once it is past the wait for a mutex.
LSection(c) ==
    \/ LPushCompleted(c)
    \/ LPushPending(c)
    \/ LTakeOneLocked(c)
    \/ LIsFinishedLocked(c)
    \/ LDrainAllLocked(c)
    \/ LMarkCompletedLocked(c)
    \/ LDiscover(c)
    \/ LMarkFailedLocked(c)
    \/ CLoop(c)

\* The task pushed directly: the first project of the root manifest, which
\* push_from_meta(root) pushes as well.
LockTasks == {Task(DirA, 0, FALSE)}

NextQueueLocks ==
    \/ \E c \in Callers, task \in LockTasks : CPush(c, task)
    \/ \E c \in Callers : CPushFromMeta(c, Root, 0)
    \/ \E c \in Callers, op \in {"take_one", "is_finished", "drain_all"} : LCall(c, op)
    \/ \E c \in Callers, task \in held : LMarkCompleted(c, task)
    \/ \E c \in Callers, task \in held : LMarkFailed(c, task)
    \/ \E c \in Callers, task \in held : CClone(c, task)
    \/ \E c \in Callers : LAcquire(c)
    \/ \E c \in Callers : LSection(c)

SpecQueueLocks == InitQueueApi /\ [][NextQueueLocks]_vars

\* The caller waits for a mutex that another caller holds.
Blocked(c) == WaitsFor(cq_pc[c]) # "none" /\ cq_mutex[WaitsFor(cq_pc[c])] # 0

\* C33: no clone-queue operation holds one of the three mutexes while acquiring
\* another, while cloning, or while reading manifests from disk during
\* discovery, so no interleaving of push, push_from_meta, take_one,
\* is_finished, drain_all, mark_completed and mark_failed deadlocks: a caller
\* holds at most one mutex and none while it waits for one, while it is
\* between calls (where it clones) and while it searches the disk; a mutex
\* that is waited for is held by a caller whose next step is enabled, and
\* every caller inside a call is either waiting for such a mutex or able to step.
C33_NoLockHeldAcross ==
    \A c \in Callers :
        /\ Cardinality(HeldBy(c)) <= 1
        /\ WaitsFor(cq_pc[c]) # "none" => HeldBy(c) = {}
        /\ cq_pc[c] \in {"idle", "loop", "discover"} => HeldBy(c) = {}
        /\ Blocked(c) =>
                LET h == cq_mutex[WaitsFor(cq_pc[c])]
                IN  h \in Callers /\ h # c /\ ENABLED LSection(h)
        /\ (cq_pc[c] # "idle" /\ ~Blocked(c)) => ENABLED (LAcquire(c) \/ LSection(c))

\* One caller is inside mark_completed and reads the manifests under the
\* directory it marked, holding no mutex; the other holds pending inside push
\* from push_from_meta.
C33_Witness ==
    \E c, d \in Callers :
        /\ cq_pc[c] = "loop" /\ HeldBy(c) = {}
        /\ cq_pc[d] = "push_pending" /\ HeldBy(d) = {"pending"}
        /\ cq_stack[d] # <<>>
        /\ completed # {}

\* One caller waits for pending, which the other holds inside take_one.
C33_WitnessWaiting ==
    \E c, d \in Callers :
        /\ Blocked(c) /\ cq_pc[c] = "pending"
        /\ cq_pc[d] = "take_one_locked" /\ cq_mutex["pending"] = d

----------------------------------------------------------------------------
(* The counters of the queue during a scheduler run (SpecSched) *)

\* C34: in every state of a scheduler run, where each taken task is marked
\* exactly once, total_completed <= total_discovered, neither counter ever
\* decreases, total_discovered = |pending| + the number of tasks taken so far,
\* and total_completed = total_discovered whenever is_finished holds.
C34_Counters ==
    /\ [](/\ total_completed <= total_discovered
          /\ total_discovered = Len(pending) + taken
          /\ IsFinished(Q, active_workers) => total_completed = total_discovered)
    /\ [][/\ total_discovered' >= total_discovered
          /\ total_completed' >= total_completed]_vars

\* The part of C34 that does not depend on when is_finished holds.
C34_CountersKept ==
    /\ [](/\ total_completed <= total_discovered
          /\ total_discovered = Len(pending) + taken
          /\ AllDone => total_completed = total_discovered)
    /\ [][/\ total_discovered' >= total_discovered
          /\ total_completed' >= total_completed]_vars

----------------------------------------------------------------------------
(* The completed and failed sets during a scheduler run (SpecSched) *)

\* C35: in every state of a scheduler run the completed and failed sets are
\* disjoint: no target path is recorded both as cloned and as failed.
C35_CompletedFailedDisjoint == completed \cap failed = {}

====
